---------------------------- MODULE Spec2Model ----------------------------
(***************************************************************************)
(* A model of the GuitarTutor chord resolver (src/lib/theory) and of the    *)
(* library functions beside it (pitch, scales, chord tones, CAGED regions, *)
(* voicings).                                                              *)
(*                                                                         *)
(* A chord block of the timeline is inputType, input, keyTonic, keyType    *)
(* and its result; a call of a library function is the record call (the   *)
(* function and its arguments) and ret, what it returned.                  *)
(*                                                                         *)
(* Playback is app (the playback state and refs of the component),         *)
(* scheduler (the fields of the MetronomeScheduler) and browser (the audio *)
(* clock, the active interval timers, the pending animation frames and the *)
(* clicks scheduled since the last start). Time is counted in units of     *)
(* 1/300 s, in which 0.05 s, 0.12 s and the beat of the tempi explored     *)
(* (60/bpm s) are whole numbers.                                           *)
(*                                                                         *)
(* Text is a sequence of characters; a character is a one-element string.  *)
(* Three characters outside ASCII are written by name:                     *)
(*   "oslash" is U+00F8 (the half-diminished sign),                        *)
(*   "deg"    is U+00B0 (the degree sign),                                 *)
(*   "Delta"  is U+0394 (the major-seventh triangle).                      *)
(***************************************************************************)
EXTENDS Integers, Sequences, FiniteSets, TLC

VARIABLES inputType, input, keyTonic, keyType, result, pc, call, ret,
          app, scheduler, browser

vars == <<inputType, input, keyTonic, keyType, result, pc, call, ret,
          app, scheduler, browser>>

playVars == <<app, scheduler, browser>>

---------------------------------------------------------------------------
(* Bounds of the explored inputs.                                          *)

\* Pieces concatenated to form the trailing suffix of a roman numeral.
MaxSuffixParts == 2
\* Length of the run of numeral letters [ivIV] of a roman token.
MaxNumeralLen == 3
\* Pieces concatenated to form the suffix of a literal chord name.
MaxLiteralParts == 2
\* The highest fret a neck bound is drawn from.
MaxFret == 24
\* The highest target root a voicing is asked for (two octaves of pitch classes).
MaxTargetRoot == 23
\* The most blank characters put on either side of a note name.
MaxPad == 1
\* The number of steps of 0.01 s the audio clock is followed for.
MaxClockSteps == 30
\* The most blocks on the timeline.
MaxBlocks == 2
\* The number of steps of 0.01 s the audio clock is followed for during playback.
MaxPlaySteps == 9

---------------------------------------------------------------------------
(* Strings: the JavaScript string operations the parsers use.              *)

Min(S) == CHOOSE x \in S : \A y \in S : x <= y
Max(S) == CHOOSE x \in S : \A y \in S : x >= y

LowerLetters == <<"a","b","c","d","e","f","g","h","i","j","k","l","m",
                  "n","o","p","q","r","s","t","u","v","w","x","y","z">>
UpperLetters == <<"A","B","C","D","E","F","G","H","I","J","K","L","M",
                  "N","O","P","Q","R","S","T","U","V","W","X","Y","Z">>

ToUpperChar(c) ==
  IF \E k \in 1..26 : LowerLetters[k] = c
  THEN UpperLetters[CHOOSE k \in 1..26 : LowerLetters[k] = c]
  ELSE c

ToLowerChar(c) ==
  IF \E k \in 1..26 : UpperLetters[k] = c
  THEN LowerLetters[CHOOSE k \in 1..26 : UpperLetters[k] = c]
  ELSE c

toUpperCase(s) == [k \in 1..Len(s) |-> ToUpperChar(s[k])]
toLowerCase(s) == [k \in 1..Len(s) |-> ToLowerChar(s[k])]

\* The class \s, restricted to the blank, the tab and the line feed.
IsSpace(c) == c \in {" ", "\t", "\n"}

\* A line terminator, which the regex dot does not match.
IsLineTerminator(c) == c = "\n"

\* String.prototype.trim
trim(s) ==
  LET idx == {k \in 1..Len(s) : ~IsSpace(s[k])}
  IN  IF idx = {} THEN <<>> ELSE SubSeq(s, Min(idx), Max(idx))

\* s.replace(/\s+/g, "")
removeWhitespace(s) == SelectSeq(s, LAMBDA c : ~IsSpace(c))

\* A split that stops at the first "/" (a split with a limit).
splitOnce(s) ==
  LET idx == {k \in 1..Len(s) : s[k] = "/"}
  IN  IF idx = {} THEN <<s>>
      ELSE <<SubSeq(s, 1, Min(idx) - 1), SubSeq(s, Min(idx) + 1, Len(s))>>

\* String.prototype.split("/")
RECURSIVE split(_)
split(s) ==
  LET idx == {k \in 1..Len(s) : s[k] = "/"}
  IN  IF idx = {} THEN <<s>>
      ELSE <<SubSeq(s, 1, Min(idx) - 1)>> \o split(SubSeq(s, Min(idx) + 1, Len(s)))

\* RegExp.test of an unanchored literal: sub occurs somewhere in s.
Contains(s, sub) ==
  \E k \in 1..(Len(s) - Len(sub) + 1) : SubSeq(s, k, k + Len(sub) - 1) = sub

\* The same under the i flag.
ContainsI(s, sub) == Contains(toLowerCase(s), toLowerCase(sub))

startsWith(s, prefix) ==
  Len(s) >= Len(prefix) /\ SubSeq(s, 1, Len(prefix)) = prefix

---------------------------------------------------------------------------
(* pitch.ts                                                                *)

LETTER_TO_PC(letter) ==
  CASE letter = "C" -> 0
    [] letter = "D" -> 2
    [] letter = "E" -> 4
    [] letter = "F" -> 5
    [] letter = "G" -> 7
    [] letter = "A" -> 9
    [] letter = "B" -> 11

NoteLetters == {"A","B","C","D","E","F","G","a","b","c","d","e","f","g"}

normalizeNoteName(s) == removeWhitespace(trim(s))

\* null is modelled as -1.
toPitchClass(note) ==
  LET cleaned == normalizeNoteName(note)
  IN  IF Len(cleaned) = 0 \/ cleaned[1] \notin NoteLetters THEN -1
      ELSE LET letter == ToUpperChar(cleaned[1])
               accidental == IF Len(cleaned) >= 2 /\ cleaned[2] \in {"#", "b"}
                             THEN cleaned[2] ELSE ""
               base == LETTER_TO_PC(letter)
               pc1 == IF accidental = "#" THEN base + 1 ELSE base
               pc2 == IF accidental = "b" THEN pc1 - 1 ELSE pc1
           IN  (pc2 + 12) % 12

---------------------------------------------------------------------------
(* scales.ts                                                               *)

MAJOR_SCALE == <<0, 2, 4, 5, 7, 9, 11>>
NATURAL_MINOR_SCALE == <<0, 2, 3, 5, 7, 8, 10>>

buildScale(root, type) ==
  LET intervals == IF type = "major" THEN MAJOR_SCALE ELSE NATURAL_MINOR_SCALE
  IN  [k \in 1..Len(intervals) |-> (root + intervals[k]) % 12]

MAJOR_PENTATONIC == <<0, 2, 4, 7, 9>>
MINOR_PENTATONIC == <<0, 3, 5, 7, 10>>

\* A pentatonic builder that takes the interval list of the other mode.
buildPentatonicSwapped(root, type) ==
  LET intervals == IF type = "major" THEN MINOR_PENTATONIC ELSE MAJOR_PENTATONIC
  IN  [k \in 1..Len(intervals) |-> (root + intervals[k]) % 12]

buildPentatonic(root, type) ==
  LET intervals == IF type = "major" THEN MAJOR_PENTATONIC ELSE MINOR_PENTATONIC
  IN  [k \in 1..Len(intervals) |-> (root + intervals[k]) % 12]

---------------------------------------------------------------------------
(* chords.ts                                                               *)

ChordQuality == {"maj", "min", "dim", "aug", "sus2", "sus4", "dom7", "maj7",
                 "min7", "m7b5", "add9", "6", "9"}

CHORD_QUALITY_INTERVALS(q) ==
  CASE q = "maj"  -> <<0, 4, 7>>
    [] q = "min"  -> <<0, 3, 7>>
    [] q = "dim"  -> <<0, 3, 6>>
    [] q = "aug"  -> <<0, 4, 8>>
    [] q = "sus2" -> <<0, 2, 7>>
    [] q = "sus4" -> <<0, 5, 7>>
    [] q = "dom7" -> <<0, 4, 7, 10>>
    [] q = "maj7" -> <<0, 4, 7, 11>>
    [] q = "min7" -> <<0, 3, 7, 10>>
    [] q = "m7b5" -> <<0, 3, 6, 10>>
    [] q = "add9" -> <<0, 4, 7, 14>>
    [] q = "6"    -> <<0, 4, 7, 9>>
    [] q = "9"    -> <<0, 4, 7, 10, 14>>

\* The two shapes of ParseResult.
Ok(chord) == [ok |-> TRUE, chord |-> chord]
Err(error) == [ok |-> FALSE, error |-> error, detail |-> << >>]
\* A failure whose message ends with a piece of the input.
ErrWith(error, detail) == [ok |-> FALSE, error |-> error, detail |-> detail]


\* The table of [pattern, quality] pairs.  Every pattern is ^(?:a|b|...)$ under
\* the i flag, so a pattern is the set of its alternatives.
LITERAL_SUFFIXES ==
  << [alts |-> {<<"m","a","j","7">>, <<"M","7">>, <<"Delta","7">>}, quality |-> "maj7"],
     [alts |-> {<<"m","7","b","5">>, <<"oslash">>},                 quality |-> "m7b5"],
     [alts |-> {<<"m","i","n","7">>, <<"m","7">>},                  quality |-> "min7"],
     [alts |-> {<<"7">>},                                           quality |-> "dom7"],
     [alts |-> {<<"m","i","n">>, <<"m">>, <<"-">>},                 quality |-> "min"],
     [alts |-> {<<"d","i","m">>, <<"deg">>},                        quality |-> "dim"],
     [alts |-> {<<"a","u","g">>, <<"+">>},                          quality |-> "aug"],
     [alts |-> {<<"s","u","s","2">>},                               quality |-> "sus2"],
     [alts |-> {<<"s","u","s","4">>},                               quality |-> "sus4"],
     [alts |-> {<<"a","d","d","9">>},                               quality |-> "add9"],
     [alts |-> {<<"6">>},                                           quality |-> "6"],
     [alts |-> {<<"9">>},                                           quality |-> "9"],
     [alts |-> {<< >>},                                             quality |-> "maj"] >>

\* A pattern without its closing anchor: it accepts any continuation.
PatternTestUnanchored(entry, suffix) ==
  \E a \in entry.alts : startsWith(toLowerCase(suffix), toLowerCase(a))

\* pattern.test(suffix) for an entry of the table: anchored, case-insensitive.
PatternTest(entry, suffix) ==
  toLowerCase(suffix) \in {toLowerCase(a) : a \in entry.alts}

\* /^([A-Ga-g])([#b]?)(.*)$/ has no s or m flag: (.*) stops at a line
\* terminator and $ is the end of the text, so a text with a line terminator
\* inside does not match.
parseLiteralChord(text) ==
  LET trimmed == trim(text)
  IN  IF \/ Len(trimmed) = 0
         \/ trimmed[1] \notin NoteLetters
         \/ \E k \in 1..Len(trimmed) : IsLineTerminator(trimmed[k])
      THEN Err("Invalid chord root.")
      ELSE
        LET hasAcc == Len(trimmed) >= 2 /\ trimmed[2] \in {"#", "b"}
            rootName == IF hasAcc THEN <<ToUpperChar(trimmed[1]), trimmed[2]>>
                                  ELSE <<ToUpperChar(trimmed[1])>>
            suffix == trim(SubSeq(trimmed, Len(rootName) + 1, Len(trimmed)))
            root == toPitchClass(rootName)
            hits == {k \in 1..Len(LITERAL_SUFFIXES) :
                       PatternTest(LITERAL_SUFFIXES[k], suffix)}
        IN  IF root = -1 THEN Err("Invalid chord root.")
            ELSE IF hits = {}
            THEN ErrWith("Unsupported chord suffix: ",
                         IF suffix = << >> THEN <<"(none)">> ELSE suffix)
            ELSE LET quality == LITERAL_SUFFIXES[Min(hits)].quality
                 IN  Ok([root |-> root, quality |-> quality,
                         intervals |-> CHORD_QUALITY_INTERVALS(quality)])

---------------------------------------------------------------------------
(* roman.ts                                                                *)

\* ROMAN_DEGREES; 0 stands for a key the table does not hold (undefined).
ROMAN_DEGREES(roman) ==
  CASE roman = <<"I">>         -> 1
    [] roman = <<"I","I">>     -> 2
    [] roman = <<"I","I","I">> -> 3
    [] roman = <<"I","V">>     -> 4
    [] roman = <<"V">>         -> 5
    [] roman = <<"V","I">>     -> 6
    [] roman = <<"V","I","I">> -> 7
    [] OTHER                   -> 0

RomanChars == {"i", "v", "I", "V"}

NullParts == [null |-> TRUE]

\* /^([b#]?)([ivIV]+)(.*)$/ : an optional accidental, then the longest run of
\* numeral letters (the quantifier is greedy and (.*) takes what is left).
parseRomanPart(text) ==
  LET accLen == IF Len(text) >= 1 /\ text[1] \in {"b", "#"} THEN 1 ELSE 0
      rest == SubSeq(text, accLen + 1, Len(text))
      stop == {k \in 1..Len(rest) : rest[k] \notin RomanChars}
      runLen == IF stop = {} THEN Len(rest) ELSE Min(stop) - 1
      roman == SubSeq(rest, 1, runLen)
      degree == ROMAN_DEGREES(toUpperCase(roman))
  IN  IF runLen = 0 THEN NullParts
      ELSE IF degree = 0 THEN NullParts
      ELSE [null |-> FALSE,
            accidental |-> IF accLen = 0 THEN 0
                           ELSE IF text[1] = "b" THEN -1 ELSE 1,
            degree |-> degree,
            isLower |-> (roman = toLowerCase(roman)),
            suffix |-> SubSeq(rest, runLen + 1, Len(rest))]

\* The tests in another order: augmented before diminished.
qualityFromRomanAugFirst(parts) ==
  LET suffix == parts.suffix
  IN  IF Contains(suffix, <<"oslash">>) THEN "m7b5"
      ELSE IF ContainsI(suffix, <<"+">>) \/ ContainsI(suffix, <<"a","u","g">>) THEN "aug"
      ELSE IF ContainsI(suffix, <<"deg">>) \/ ContainsI(suffix, <<"d","i","m">>)
              \/ ContainsI(suffix, <<"o">>) THEN "dim"
      ELSE IF parts.isLower THEN "min" ELSE "maj"

\* The function has no path that returns null (written "null" here).
qualityFromRoman(parts) ==
  LET suffix == parts.suffix
  IN  IF Contains(suffix, <<"oslash">>) THEN "m7b5"
      ELSE IF ContainsI(suffix, <<"deg">>) \/ ContainsI(suffix, <<"d","i","m">>)
              \/ ContainsI(suffix, <<"o">>) THEN "dim"
      ELSE IF ContainsI(suffix, <<"+">>) \/ ContainsI(suffix, <<"a","u","g">>) THEN "aug"
      ELSE IF parts.isLower THEN "min" ELSE "maj"

\* A resolution that drops the accidental.
resolveDegreeNoAccidental(keyScale, degree, accidental) ==
  LET base == keyScale[degree]
  IN  (base + 12) % 12

resolveDegree(keyScale, degree, accidental) ==
  LET base == keyScale[degree]
  IN  (base + accidental + 12) % 12

\* pieces[0].replace(/^[b#]?/i, "").toUpperCase()
baseRomanOf(piece) ==
  toUpperCase(IF Len(piece) >= 1 /\ ToLowerChar(piece[1]) \in {"b", "#"}
              THEN SubSeq(piece, 2, Len(piece)) ELSE piece)

\* A dominant placed a fourth above its target instead of a fifth.
secondaryRootFourth(baseRoman, targetRoot) ==
  IF startsWith(baseRoman, <<"V">>) THEN (targetRoot + 5) % 12
  ELSE IF startsWith(baseRoman, <<"V","I","I">>) THEN (targetRoot + 11) % 12
  ELSE -1

\* Lines 81-95: the root of a secondary form, or -1 for the unsupported form.
secondaryRoot(baseRoman, targetRoot) ==
  IF startsWith(baseRoman, <<"V">>) THEN (targetRoot + 7) % 12
  ELSE IF startsWith(baseRoman, <<"V","I","I">>) THEN (targetRoot + 11) % 12
  ELSE -1

parseRomanNumeral(text, tonic, type) ==
  LET trimmed == removeWhitespace(trim(text))
      pieces == split(trimmed)
      main == parseRomanPart(pieces[1])
      keyRoot == toPitchClass(tonic)
      keyScale == buildScale(keyRoot, type)
      mainQuality == qualityFromRoman(main)
      chordOf(root) == Ok([root |-> root, quality |-> mainQuality,
                           intervals |-> CHORD_QUALITY_INTERVALS(mainQuality)])
  IN  IF trimmed = << >> THEN Err("Empty roman numeral.")
      ELSE IF Len(pieces) > 2 THEN Err("Too many secondary dominants.")
      ELSE IF main.null THEN Err("Invalid roman numeral.")
      ELSE IF keyRoot = -1 THEN Err("Invalid key tonic.")
      ELSE IF mainQuality = "null" THEN Err("Unsupported roman numeral quality.")
      ELSE IF Len(pieces) = 2
      THEN LET target == parseRomanPart(pieces[2])
           IN  IF target.null THEN Err("Invalid secondary target.")
               ELSE LET targetRoot == resolveDegree(keyScale, target.degree,
                                                    target.accidental)
                        root == secondaryRoot(baseRomanOf(pieces[1]), targetRoot)
                    IN  IF root = -1
                        THEN Err("Only V/x or VII(deg)/x supported in MVP.")
                        ELSE chordOf(root)
      ELSE chordOf(resolveDegree(keyScale, main.degree, main.accidental))

---------------------------------------------------------------------------
(* chords.ts: the tones of a resolved chord                                *)

\* A tone list that keeps compound intervals above the octave.
chordToneSetNoWrap(chord) ==
  [k \in 1..Len(chord.intervals) |-> chord.root + chord.intervals[k]]

chordToneSet(chord) ==
  [k \in 1..Len(chord.intervals) |-> (chord.root + chord.intervals[k]) % 12]

---------------------------------------------------------------------------
(* caged.ts                                                                *)

C_MAJOR_TEMPLATES ==
  << [id |-> "C", label |-> "C shape", anchorFret |-> 3,  startOffset |-> -3, endOffset |-> 1],
     [id |-> "A", label |-> "A shape", anchorFret |-> 3,  startOffset |-> -1, endOffset |-> 3],
     [id |-> "G", label |-> "G shape", anchorFret |-> 3,  startOffset |-> -1, endOffset |-> 3],
     [id |-> "E", label |-> "E shape", anchorFret |-> 8,  startOffset |-> -1, endOffset |-> 3],
     [id |-> "D", label |-> "D shape", anchorFret |-> 10, startOffset |-> -2, endOffset |-> 2] >>

A_MINOR_TEMPLATES ==
  << [id |-> "A", label |-> "A shape", anchorFret |-> 0,  startOffset |-> 0,  endOffset |-> 3],
     [id |-> "G", label |-> "G shape", anchorFret |-> 5,  startOffset |-> -2, endOffset |-> 2],
     [id |-> "E", label |-> "E shape", anchorFret |-> 5,  startOffset |-> -1, endOffset |-> 3],
     [id |-> "D", label |-> "D shape", anchorFret |-> 10, startOffset |-> -2, endOffset |-> 2],
     [id |-> "C", label |-> "C shape", anchorFret |-> 12, startOffset |-> -3, endOffset |-> 1] >>

MathMax(a, b) == IF a >= b THEN a ELSE b
MathMin(a, b) == IF a <= b THEN a ELSE b

NullWindow == [null |-> TRUE]

\* A clamp that forgets the upper bound of the neck.
clampWindowOpenEnd(fretStart, fretEnd, min, max) ==
  LET start == MathMax(min, fretStart)
      end == fretEnd
  IN  IF end < min \/ start > max \/ start > end THEN NullWindow
      ELSE [null |-> FALSE, start |-> start, end |-> end]

clampWindow(fretStart, fretEnd, min, max) ==
  LET start == MathMax(min, fretStart)
      end == MathMin(max, fretEnd)
  IN  IF end < min \/ start > max \/ start > end THEN NullWindow
      ELSE [null |-> FALSE, start |-> start, end |-> end]

\* A round that lets a later shift of equal overlap replace the best one.
chooseShiftStepNonStrict(best, shift, baseStart, baseEnd, min, max) ==
  LET window == clampWindow(baseStart + shift, baseEnd + shift, min, max)
  IN  IF window.null THEN best
      ELSE LET overlap == window.end - window.start
           IN  IF overlap >= best.bestOverlap
               THEN [bestShift |-> shift, bestOverlap |-> overlap]
               ELSE best

\* One round of the forEach of chooseShift on the pair (bestShift, bestOverlap).
chooseShiftStep(best, shift, baseStart, baseEnd, min, max) ==
  LET window == clampWindow(baseStart + shift, baseEnd + shift, min, max)
  IN  IF window.null THEN best
      ELSE LET overlap == window.end - window.start
           IN  IF overlap > best.bestOverlap
               THEN [bestShift |-> shift, bestOverlap |-> overlap]
               ELSE best

\* A choice that keeps the first shift whose window is valid.
chooseShiftFirstValid(baseStart, baseEnd, diff, min, max) ==
  IF ~clampWindow(baseStart + diff, baseEnd + diff, min, max).null THEN diff
  ELSE IF ~clampWindow(baseStart + diff - 12, baseEnd + diff - 12, min, max).null
  THEN diff - 12
  ELSE diff

\* A choice that never looks at the window an octave lower.
chooseShiftDiffOnly(baseStart, baseEnd, diff, min, max) == diff

chooseShift(baseStart, baseEnd, diff, min, max) ==
  LET shifts == <<diff, diff - 12>>
      start == [bestShift |-> shifts[1], bestOverlap |-> -1]
      after1 == chooseShiftStep(start, shifts[1], baseStart, baseEnd, min, max)
      after2 == chooseShiftStep(after1, shifts[2], baseStart, baseEnd, min, max)
  IN  after2.bestShift

\* A reference tonic that is C in both modes.
baseKeyPcAlwaysC(type) == 0

\* Line 69: the tonic of the reference key of the mode's templates.
baseKeyPcOf(type) == IF type = "major" THEN 0 ELSE 9

\* The map step of lines 74-86 for one template: a region, or null.
regionOfTemplate(template, diff, fretMin, fretMax) ==
  LET baseStart == template.anchorFret + template.startOffset
      baseEnd == template.anchorFret + template.endOffset
      shift == chooseShift(baseStart, baseEnd, diff, fretMin, fretMax)
      window == clampWindow(baseStart + shift, baseEnd + shift, fretMin, fretMax)
  IN  IF window.null THEN [null |-> TRUE]
      ELSE [null |-> FALSE, id |-> template.id, label |-> template.label,
            fretStart |-> window.start, fretEnd |-> window.end]

getCagedRegionsForKey(keyTonicPc, type, fretMin, fretMax) ==
  LET baseKeyPc == baseKeyPcOf(type)
      diff == (keyTonicPc - baseKeyPc + 12) % 12
      templates == IF type = "major" THEN C_MAJOR_TEMPLATES ELSE A_MINOR_TEMPLATES
      mapped == [k \in 1..Len(templates) |->
                   regionOfTemplate(templates[k], diff, fretMin, fretMax)]
      kept == SelectSeq(mapped, LAMBDA region : ~region.null)
  IN  [k \in 1..Len(kept) |->
         [id |-> kept[k].id, label |-> kept[k].label,
          fretStart |-> kept[k].fretStart, fretEnd |-> kept[k].fretEnd]]

\* The index of the first region with the id, 0 when there is none.
findRegion(regions, id) ==
  IF \E k \in 1..Len(regions) : regions[k].id = id
  THEN Min({k \in 1..Len(regions) : regions[k].id = id})
  ELSE 0

getRegionWindow(regions, id) ==
  LET k == findRegion(regions, id)
  IN  IF k = 0 THEN [null |-> TRUE]
      ELSE [null |-> FALSE, fretStart |-> regions[k].fretStart,
            fretEnd |-> regions[k].fretEnd]

\* A lookup that leaves out the last fret of every window.
getRegionsForFretHalfOpen(regions, fret) ==
  LET kept == SelectSeq(regions, LAMBDA region :
                          fret >= region.fretStart /\ fret < region.fretEnd)
  IN  [k \in 1..Len(kept) |-> kept[k].id]

getRegionsForFret(regions, fret) ==
  LET kept == SelectSeq(regions, LAMBDA region :
                          fret >= region.fretStart /\ fret <= region.fretEnd)
  IN  [k \in 1..Len(kept) |-> kept[k].id]

---------------------------------------------------------------------------
(* The application: neck and tuning                                        *)

STRING_TUNING == <<4, 11, 7, 2, 9, 4>>
FRET_COUNT == 16

\* The positions of the overlay selector besides "All".
CagedRegionIds == {"C", "A", "G", "E", "D"}

---------------------------------------------------------------------------
(* pitch.ts: names of the pitch classes                                    *)

SHARP_NAMES ==
  << <<"C">>, <<"C", "#">>, <<"D">>, <<"D", "#">>, <<"E">>, <<"F">>,
     <<"F", "#">>, <<"G">>, <<"G", "#">>, <<"A">>, <<"A", "#">>, <<"B">> >>

FLAT_NAMES ==
  << <<"C">>, <<"D", "b">>, <<"D">>, <<"E", "b">>, <<"E">>, <<"F">>,
     <<"G", "b">>, <<"G">>, <<"A", "b">>, <<"A">>, <<"B", "b">>, <<"B">> >>

\* The % of the language: the remainder has the sign of the dividend.
Remainder(a, n) == IF a >= 0 THEN a % n ELSE -((-a) % n)

\* A formatter that reads the tables one entry too far.
formatPitchClassNextName(pitch, preferFlats) ==
  LET index == Remainder(Remainder(pitch, 12) + 12 + 1, 12)
  IN  IF preferFlats THEN FLAT_NAMES[index + 1] ELSE SHARP_NAMES[index + 1]

formatPitchClass(pitch, preferFlats) ==
  LET index == Remainder(Remainder(pitch, 12) + 12, 12)
  IN  IF preferFlats THEN FLAT_NAMES[index + 1] ELSE SHARP_NAMES[index + 1]

---------------------------------------------------------------------------
(* voicings/index.ts                                                       *)

VOICINGS ==
  << [id |-> "open-c-maj", name |-> "Open C", quality |-> "maj", baseRoot |-> "C",
      frets |-> <<-1, 3, 2, 0, 1, 0>>, movable |-> FALSE],
     [id |-> "open-c-min", name |-> "Open Cm (alt)", quality |-> "min", baseRoot |-> "C",
      frets |-> <<-1, 3, 1, 0, 1, 3>>, movable |-> FALSE],
     [id |-> "open-d-maj", name |-> "Open D", quality |-> "maj", baseRoot |-> "D",
      frets |-> <<-1, -1, 0, 2, 3, 2>>, movable |-> FALSE],
     [id |-> "open-d-min", name |-> "Open Dm", quality |-> "min", baseRoot |-> "D",
      frets |-> <<-1, -1, 0, 2, 3, 1>>, movable |-> FALSE],
     [id |-> "open-e-maj", name |-> "Open E", quality |-> "maj", baseRoot |-> "E",
      frets |-> <<0, 2, 2, 1, 0, 0>>, movable |-> FALSE],
     [id |-> "open-e-min", name |-> "Open Em", quality |-> "min", baseRoot |-> "E",
      frets |-> <<0, 2, 2, 0, 0, 0>>, movable |-> FALSE],
     [id |-> "open-g-maj", name |-> "Open G", quality |-> "maj", baseRoot |-> "G",
      frets |-> <<3, 2, 0, 0, 0, 3>>, movable |-> FALSE],
     [id |-> "open-a-maj", name |-> "Open A", quality |-> "maj", baseRoot |-> "A",
      frets |-> <<-1, 0, 2, 2, 2, 0>>, movable |-> FALSE],
     [id |-> "open-a-min", name |-> "Open Am", quality |-> "min", baseRoot |-> "A",
      frets |-> <<-1, 0, 2, 2, 1, 0>>, movable |-> FALSE],
     [id |-> "e-shape-maj", name |-> "E-shape Maj", quality |-> "maj", baseRoot |-> "E",
      frets |-> <<0, 2, 2, 1, 0, 0>>, movable |-> TRUE],
     [id |-> "e-shape-min", name |-> "E-shape Min", quality |-> "min", baseRoot |-> "E",
      frets |-> <<0, 2, 2, 0, 0, 0>>, movable |-> TRUE],
     [id |-> "e-shape-dom7", name |-> "E-shape 7", quality |-> "dom7", baseRoot |-> "E",
      frets |-> <<0, 2, 0, 1, 0, 0>>, movable |-> TRUE],
     [id |-> "e-shape-maj7", name |-> "E-shape Maj7", quality |-> "maj7", baseRoot |-> "E",
      frets |-> <<0, 2, 1, 1, 0, 0>>, movable |-> TRUE],
     [id |-> "e-shape-min7", name |-> "E-shape Min7", quality |-> "min7", baseRoot |-> "E",
      frets |-> <<0, 2, 0, 0, 0, 0>>, movable |-> TRUE],
     [id |-> "a-shape-maj", name |-> "A-shape Maj", quality |-> "maj", baseRoot |-> "A",
      frets |-> <<-1, 0, 2, 2, 2, 0>>, movable |-> TRUE],
     [id |-> "a-shape-min", name |-> "A-shape Min", quality |-> "min", baseRoot |-> "A",
      frets |-> <<-1, 0, 2, 2, 1, 0>>, movable |-> TRUE],
     [id |-> "a-shape-dom7", name |-> "A-shape 7", quality |-> "dom7", baseRoot |-> "A",
      frets |-> <<-1, 0, 2, 0, 2, 0>>, movable |-> TRUE],
     [id |-> "a-shape-maj7", name |-> "A-shape Maj7", quality |-> "maj7", baseRoot |-> "A",
      frets |-> <<-1, 0, 2, 1, 2, 0>>, movable |-> TRUE],
     [id |-> "a-shape-min7", name |-> "A-shape Min7", quality |-> "min7", baseRoot |-> "A",
      frets |-> <<-1, 0, 2, 0, 1, 0>>, movable |-> TRUE] >>

BASE_ROOT_PC(baseRoot) ==
  CASE baseRoot = "C" -> 0
    [] baseRoot = "D" -> 2
    [] baseRoot = "E" -> 4
    [] baseRoot = "G" -> 7
    [] baseRoot = "A" -> 9

\* A transposition that keeps the raw distance to the base root.
resolveVoicingFretsNoWrap(shape, targetRoot) ==
  IF ~shape.movable THEN shape.frets
  ELSE LET basePc == BASE_ROOT_PC(shape.baseRoot)
           offset == targetRoot - basePc + 12
       IN  [k \in 1..Len(shape.frets) |->
              IF shape.frets[k] < 0 THEN -1 ELSE shape.frets[k] + offset]

resolveVoicingFrets(shape, targetRoot) ==
  IF ~shape.movable THEN shape.frets
  ELSE LET basePc == BASE_ROOT_PC(shape.baseRoot)
           offset == Remainder(targetRoot - basePc + 12, 12)
       IN  [k \in 1..Len(shape.frets) |->
              IF shape.frets[k] < 0 THEN -1 ELSE shape.frets[k] + offset]

\* A label that names the root for every shape.
voicingLabelAlwaysRooted(shape, targetRoot, preferFlats) ==
  LET basePc == BASE_ROOT_PC(shape.baseRoot)
      offset == Remainder(targetRoot - basePc + 12, 12)
      rootName == formatPitchClass(targetRoot, preferFlats)
  IN  <<rootName, " ", shape.name, " (fret ", offset, ")">>

\* The label as the sequence of the pieces the template literal joins.
voicingLabel(shape, targetRoot, preferFlats) ==
  IF ~shape.movable THEN <<shape.name>>
  ELSE LET basePc == BASE_ROOT_PC(shape.baseRoot)
           offset == Remainder(targetRoot - basePc + 12, 12)
           rootName == formatPitchClass(targetRoot, preferFlats)
       IN  <<rootName, " ", shape.name, " (fret ", offset, ")">>

---------------------------------------------------------------------------
(* The application: overlay of the active block and voicing options        *)

\* No chord: the active block is missing or its input did not resolve.
NoChord == [none |-> TRUE]

HasChord(chord) == chord # NoChord

EmptyOverlay == [noteSet |-> {}, positionSet |-> {}]

AsSet(s) == {s[k] : k \in 1..Len(s)}

\* chord.quality.startsWith("min") on the qualities of ChordQuality.
QualityStartsWithMin(quality) == quality \in {"min", "min7"}

\* VOICINGS.find((item) => item.id === voicingId): the index, 0 for none.
findVoicing(voicingId) ==
  IF \E k \in 1..Len(VOICINGS) : VOICINGS[k].id = voicingId
  THEN Min({k \in 1..Len(VOICINGS) : VOICINGS[k].id = voicingId})
  ELSE 0

\* A position is the pair (stringIndex, fret) behind the key "stringIndex-fret";
\* string indices count from 0, as the rows of the fretboard grid do.
overlay(chord, mode, voicingId, pentatonicSource, keyRoot, type) ==
  IF ~HasChord(chord) THEN EmptyOverlay
  ELSE IF mode = "voicing"
  THEN LET k == findVoicing(voicingId)
       IN  IF k = 0 THEN EmptyOverlay
           ELSE LET frets == resolveVoicingFrets(VOICINGS[k], chord.root)
                IN  [noteSet |-> {},
                     positionSet |->
                       {<<i - 1, frets[i]>> : i \in {j \in 1..Len(frets) :
                                                  frets[j] >= 0 /\ frets[j] < FRET_COUNT}}]
  ELSE IF mode = "pentatonic"
  THEN LET source == IF pentatonicSource = "undefined" THEN "key" ELSE pentatonicSource
           root == IF source = "chordRoot" THEN chord.root ELSE keyRoot
           ptype == IF source = "chordRoot"
                    THEN (IF QualityStartsWithMin(chord.quality) THEN "minor" ELSE "major")
                    ELSE type
       IN  [noteSet |-> AsSet(buildPentatonic(root, ptype)), positionSet |-> {}]
  ELSE IF mode \in {"chordTones", "arpeggio"}
  THEN [noteSet |-> AsSet(chordToneSet(chord)), positionSet |-> {}]
  ELSE EmptyOverlay

\* The map step of buildVoicingOptions for one shape: an option, or null.
voicingOption(shape, chord, preferFlats) ==
  LET frets == resolveVoicingFrets(shape, chord.root)
      fits == \A k \in 1..Len(frets) : frets[k] < FRET_COUNT
  IN  IF ~fits THEN [null |-> TRUE]
      ELSE [null |-> FALSE, shape |-> shape, frets |-> frets,
            label |-> voicingLabel(shape, chord.root, preferFlats)]

buildVoicingOptions(chord, preferFlats) ==
  IF ~HasChord(chord) THEN << >>
  ELSE LET matching == SelectSeq(VOICINGS, LAMBDA shape : shape.quality = chord.quality)
           mapped == [k \in 1..Len(matching) |->
                        voicingOption(matching[k], chord, preferFlats)]
           kept == SelectSeq(mapped, LAMBDA item : ~item.null)
       IN  [k \in 1..Len(kept) |->
              [shape |-> kept[k].shape, frets |-> kept[k].frets, label |-> kept[k].label]]

---------------------------------------------------------------------------
(* The metronome scheduler (part_001) and the browser it runs in           *)

\* Numbers: time is an integer count of units of 1/300 s. Infinity stands
\* for the value of 60 / 0 and NaN for the value of 0 * Infinity.
Infinity == 1000000
NaN == -1000000

IsFinite(x) == x # Infinity /\ x # NaN

Plus(a, b) ==
  IF a = NaN \/ b = NaN THEN NaN
  ELSE IF a = Infinity \/ b = Infinity THEN Infinity
  ELSE a + b

\* a * b for a >= 0 finite and b finite or Infinity.
Times(a, b) ==
  IF b = NaN THEN NaN
  ELSE IF b = Infinity THEN (IF a = 0 THEN NaN ELSE Infinity)
  ELSE a * b

\* a < b and a <= b; every comparison with NaN is false.
Less(a, b) == a # NaN /\ b # NaN /\ a < b
LessEq(a, b) == a # NaN /\ b # NaN /\ a <= b

\* 60 / bpm in time units; the tempi explored divide 18000.
SecondsPerBeat(bpm) == IF bpm = 0 THEN Infinity ELSE 18000 \div bpm

\* this.scheduleAheadTime = 0.12
scheduleAheadTime == 36

\* 0.01 s, the step the audio clock is read at.
ClockStep == 3

\* intervalId, rafRef.current: null
Null == 0

\* config: null
NoConfig == [none |-> TRUE]

\* The scheduler after its constructor.
NewScheduler ==
  [intervalId |-> Null, nextBeatTime |-> 0, beatIndex |-> 0, config |-> NoConfig]

\* The browser before anything ran.
NewBrowser == [currentTime |-> 0, timers |-> {}, frames |-> {}, clicks |-> << >>]

\* window.setInterval / requestAnimationFrame: an id no active timer or
\* pending frame has.
FreshId(used) == Min({k \in 1..(Cardinality(used) + 1) : k \notin used})

\* A world is the scheduler, the browser and the component together; the
\* methods below take a world and return the world they leave.
MetronomeStop(w) ==
  IF w.scheduler.intervalId # Null
  THEN [w EXCEPT !.browser.timers = @ \ {w.scheduler.intervalId},
                 !.scheduler.intervalId = Null]
  ELSE w

\* A start that installs the new timer without clearing the previous one.
MetronomeStartNoStop(w, config) ==
  LET id == FreshId(w.browser.timers)
  IN  [w EXCEPT !.scheduler.config = config,
                !.scheduler.nextBeatTime = config.startTime,
                !.scheduler.beatIndex = 0,
                !.scheduler.intervalId = id,
                !.browser.timers = @ \cup {id},
                !.browser.clicks = << >>]

\* browser.clicks is emptied here: it lists the clicks since the last start.
MetronomeStart(w, config) ==
  LET w1 == MetronomeStop(w)
      id == FreshId(w1.browser.timers)
  IN  [w1 EXCEPT !.scheduler.config = config,
                 !.scheduler.nextBeatTime = config.startTime,
                 !.scheduler.beatIndex = 0,
                 !.scheduler.intervalId = id,
                 !.browser.timers = @ \cup {id},
                 !.browser.clicks = << >>]

MetronomeUpdateConfig(w, config) == MetronomeStart(w, config)

\* A click that is never accented.
scheduleClickPlain(w, time, accent) ==
  [w EXCEPT !.browser.clicks = Append(@, [time |-> time, frequency |-> 750])]

\* The oscillator of a click: its start time and its frequency.
scheduleClick(w, time, accent) ==
  [w EXCEPT !.browser.clicks =
     Append(@, [time |-> time, frequency |-> IF accent THEN 1000 ELSE 750])]

\* The while loop of tick.
RECURSIVE tickLoop(_)
tickLoop(w) ==
  LET config == w.scheduler.config
      secondsPerBeat == SecondsPerBeat(config.bpm)
  IN  IF Less(w.scheduler.nextBeatTime, w.browser.currentTime + scheduleAheadTime)
      THEN LET isDownbeat == w.scheduler.beatIndex % config.beatsPerBar = 0
               w1 == IF config.clickEnabled
                     THEN scheduleClick(w, w.scheduler.nextBeatTime, isDownbeat)
                     ELSE w
           IN  tickLoop([w1 EXCEPT
                 !.scheduler.nextBeatTime = Plus(@, secondsPerBeat),
                 !.scheduler.beatIndex = @ + 1])
      ELSE w

MetronomeTick(w) ==
  IF w.scheduler.config = NoConfig THEN w ELSE tickLoop(w)

---------------------------------------------------------------------------
(* The application: playback (part_000, lines 127-135 and 276-363)         *)

RECURSIVE SumBars(_)
SumBars(bars) == IF bars = << >> THEN 0 ELSE Head(bars) + SumBars(Tail(bars))

totalBars(w) == SumBars(w.app.bars)

totalDurationSeconds(w) ==
  Times(totalBars(w) * w.app.beatsPerBar, SecondsPerBeat(w.app.bpm))

\* cancelAnimationFrame(id)
CancelFrame(frames, id) == {f \in frames : f.id # id}

stopPlayback(w) ==
  LET w1 == IF w.app.schedulerRef THEN MetronomeStop(w) ELSE w
  IN  [w1 EXCEPT !.app.schedulerRef = FALSE,
                 !.browser.frames = IF w1.app.rafRef # Null
                                    THEN CancelFrame(@, w1.app.rafRef) ELSE @,
                 !.app.rafRef = Null,
                 !.app.isPlaying = FALSE,
                 !.app.activeBlockIndex = -1,
                 !.app.playheadLabel = <<"00:00">>]

\* What the callback update keeps of the render startPlayback ran in.
UpdateClosure(w) ==
  [total |-> totalDurationSeconds(w), bars |-> w.app.bars,
   beatsPerBar |-> w.app.beatsPerBar, secondsPerBeat |-> SecondsPerBeat(w.app.bpm)]

\* requestAnimationFrame(update)
RequestFrame(frames, closure) ==
  [id |-> FreshId({f.id : f \in frames}), closure |-> closure]

startPlayback(w) ==
  IF LessEq(totalDurationSeconds(w), 0) THEN w
  ELSE LET w1 == IF ~w.app.schedulerRef
                 THEN [w EXCEPT !.scheduler = NewScheduler, !.app.schedulerRef = TRUE]
                 ELSE w
           startTime == w.browser.currentTime + 15
           w2 == MetronomeStart(
                   [w1 EXCEPT !.app.startTimeRef = startTime],
                   [bpm |-> w.app.bpm, beatsPerBar |-> w.app.beatsPerBar,
                    clickEnabled |-> w.app.metronomeEnabled, startTime |-> startTime])
           frame == RequestFrame(w2.browser.frames, UpdateClosure(w))
       IN  [w2 EXCEPT !.app.isPlaying = TRUE,
                      !.browser.frames = @ \cup {frame},
                      !.app.rafRef = frame.id]

\* A loop that counts the end of a block as part of the block.
RECURSIVE findActiveIndexClosedEnd(_, _, _, _)
findActiveIndexClosedEnd(closure, loopTime, i, accumulated) ==
  IF i >= Len(closure.bars) THEN -1
  ELSE LET blockSeconds == Times(closure.bars[i + 1] * closure.beatsPerBar,
                                 closure.secondsPerBeat)
       IN  IF /\ LessEq(accumulated, loopTime)
              /\ LessEq(loopTime, Plus(accumulated, blockSeconds))
           THEN i
           ELSE findActiveIndexClosedEnd(closure, loopTime, i + 1,
                                         Plus(accumulated, blockSeconds))

\* The for loop of update from index i on; -1 is null.
RECURSIVE findActiveIndex(_, _, _, _)
findActiveIndex(closure, loopTime, i, accumulated) ==
  IF i >= Len(closure.bars) THEN -1
  ELSE LET blockSeconds == Times(closure.bars[i + 1] * closure.beatsPerBar,
                                 closure.secondsPerBeat)
       IN  IF /\ LessEq(accumulated, loopTime)
              /\ Less(loopTime, Plus(accumulated, blockSeconds))
           THEN i
           ELSE findActiveIndex(closure, loopTime, i + 1, Plus(accumulated, blockSeconds))

\* elapsed % total and Math.floor(elapsed / secondsPerBeat) for elapsed >= 0.
Modulo(a, b) == IF b = Infinity THEN a ELSE a % b
FloorDiv(a, b) == IF b = Infinity THEN 0 ELSE a \div b

\* The callback update of a pending animation frame.
update(w, frame) ==
  LET closure == frame.closure
      now == w.browser.currentTime
      elapsed == MathMax(0, now - w.app.startTimeRef)
      loopTime == IF Less(0, closure.total) THEN Modulo(elapsed, closure.total) ELSE 0
      activeIndex == findActiveIndex(closure, loopTime, 0, 0)
      totalBeats == FloorDiv(elapsed, closure.secondsPerBeat)
      beatInBar == (totalBeats % closure.beatsPerBar) + 1
      barNumber == (totalBeats \div closure.beatsPerBar) + 1
      left == w.browser.frames \ {frame}
      next == RequestFrame(left, closure)
  IN  [w EXCEPT !.app.activeBlockIndex = activeIndex,
                !.app.playheadLabel = <<"Bar", barNumber, "Beat", beatInBar>>,
                !.browser.frames = left \cup {next},
                !.app.rafRef = next.id]

\* The effect on [bpm, beatsPerBar, blocks, metronomeEnabled], run after a
\* render in which one of them changed.
restartEffect(w) ==
  IF w.app.isPlaying THEN startPlayback(stopPlayback(w)) ELSE w

\* next.splice(index, 1) and next.splice(newIndex, 0, item), 0-based.
MoveItem(seq, index, newIndex) ==
  LET item == seq[index + 1]
      without == [k \in 1..(Len(seq) - 1) |-> IF k <= index THEN seq[k] ELSE seq[k + 1]]
  IN  [k \in 1..Len(seq) |->
         IF k <= newIndex THEN without[k]
         ELSE IF k = newIndex + 1 THEN item
         ELSE without[k - 1]]

RemoveItem(seq, index) ==
  [k \in 1..(Len(seq) - 1) |-> IF k <= index THEN seq[k] ELSE seq[k + 1]]

---------------------------------------------------------------------------
(* The inputs explored.                                                    *)

\* All concatenations of at most n pieces of P.
RECURSIVE Concats(_, _)
Concats(P, n) ==
  IF n = 0 THEN {<< >>}
  ELSE LET prev == Concats(P, n - 1)
       IN  prev \cup {p \o q : p \in prev, q \in P}

\* All texts over the alphabet A of length 1..n.
RECURSIVE Runs(_, _)
Runs(A, n) ==
  IF n = 0 THEN {}
  ELSE LET prev == Runs(A, n - 1)
       IN  {<<a>> : a \in A} \cup prev \cup {p \o <<a>> : p \in prev, a \in A}

Modes == {"major", "minor"}

\* The key names of the key selector.
NOTE_OPTIONS ==
  {<<"C">>, <<"C","#">>, <<"D","b">>, <<"D">>, <<"E","b">>, <<"E">>, <<"F">>,
   <<"F","#">>, <<"G","b">>, <<"G">>, <<"A","b">>, <<"A">>, <<"B","b">>, <<"B">>}

\* Every letter A-G with an optional single # or b.
ValidNoteNames ==
  {<<l>> : l \in {"A","B","C","D","E","F","G"}}
    \cup {<<l, a>> : l \in {"A","B","C","D","E","F","G"}, a \in {"#", "b"}}

InvalidKeyNames == {<< >>, <<"H">>, <<"#">>, <<" ">>, <<"x","C">>}

Accidentals == {<< >>, <<"b">>, <<"#">>}

UpperNumerals == {<<"I">>, <<"I","I">>, <<"I","I","I">>, <<"I","V">>, <<"V">>,
                  <<"V","I">>, <<"V","I","I">>}
Numerals == UpperNumerals \cup {toLowerCase(n) : n \in UpperNumerals}

RomanSuffixPieces ==
  {<<"oslash">>, <<"deg">>, <<"d","i","m">>, <<"o">>, <<"+">>, <<"a","u","g">>,
   <<"7">>, <<"x">>, <<"O">>, <<"D","i","M">>, <<"A","U","G">>, <<" ">>}

\* Numerals with a rich suffix, in C major.
QualityInputs ==
  {n \o s : n \in {<<"I">>, <<"V">>, <<"i","v">>, <<"v","i","i">>},
            s \in Concats(RomanSuffixPieces, MaxSuffixParts)}

\* Every run of numeral letters, valid or not.
NumeralInputs ==
  {a \o n \o s : a \in Accidentals, n \in Runs(RomanChars, MaxNumeralLen),
                 s \in {<< >>, <<"7">>}}

\* Slash-free numerals of every degree, for every key.
DegreeInputs ==
  {a \o n \o s : a \in Accidentals, n \in Numerals,
                 s \in {<< >>, <<"deg">>, <<"7">>}}

SecondaryLeft ==
  {a \o n : a \in Accidentals, n \in Numerals}
    \cup {n \o <<"deg">> : n \in Numerals}
    \cup {n \o <<"7">> : n \in {<<"V">>, <<"v","i","i">>}}
SecondaryRight ==
  {a \o n : a \in Accidentals, n \in UpperNumerals}
    \cup {toLowerCase(n) : n \in UpperNumerals}
    \cup {<<"i","i","7">>}
SecondaryInputs == {l \o <<"/">> \o r : l \in SecondaryLeft, r \in SecondaryRight}

\* Blank, over-split and otherwise malformed texts.
MalformedInputs ==
  {<< >>, <<" ">>, <<" ", "\t", " ">>, <<"/">>, <<"V","/">>, <<"/","V">>,
   <<"V","/","i","i","/","V">>, <<"V","/","/","i","i">>, <<"/","/">>,
   <<"x">>, <<"7">>, <<"b">>, <<"#">>, <<"b","b","V">>, <<"B","V">>, <<"H">>,
   <<"V","/","x">>, <<"I","/","7">>, <<"x","/","V">>, <<"x","/","x">>,
   <<"I","I","I","I","/","V">>, <<"V","/","V","V">>, <<"V","/","b">>,
   <<" ","V"," ","/"," ","i","i"," ">>, <<" ","b","V","I","I"," ">>,
   <<"v","i","i","deg","/","V","/","V">>}

\* No library call is under way.
NoCall == [fn |-> "none"]

\* The component before any block is added or Play is pressed.
NewApp ==
  [bpm |-> 90, beatsPerBar |-> 4, metronomeEnabled |-> TRUE, bars |-> << >>,
   isPlaying |-> FALSE, activeBlockIndex |-> -1, playheadLabel |-> <<"00:00">>,
   schedulerRef |-> FALSE, rafRef |-> Null, startTimeRef |-> 0]

\* Nothing is played while the resolver or a library function is examined.
IdlePlay ==
  /\ app = NewApp
  /\ scheduler = NewScheduler
  /\ browser = NewBrowser

InitRoman ==
  /\ inputType = "roman"
  /\ pc = "pending"
  /\ result = Err("")
  /\ call = NoCall
  /\ IdlePlay
  /\ ret = << >>
  /\ \/ /\ input \in QualityInputs
        /\ keyTonic = <<"C">>
        /\ keyType = "major"
     \/ /\ input \in NumeralInputs
        /\ keyTonic = <<"A">>
        /\ keyType \in Modes
     \/ /\ input \in DegreeInputs
        /\ keyTonic \in ValidNoteNames \cup {<<"a">>, <<" ","g","b"," ">>}
        /\ keyType \in Modes
     \/ /\ input \in SecondaryInputs
        /\ keyTonic \in ValidNoteNames
        /\ keyType \in Modes
     \/ /\ input \in MalformedInputs \cup {<<"V">>, <<"V","/","i","i">>}
        /\ keyTonic \in InvalidKeyNames \cup {<<"C">>}
        /\ keyType \in Modes

\* resolvedBlocks for a block of input type "roman".
ResolveRoman ==
  /\ pc = "pending"
  /\ inputType = "roman"
  /\ result' = parseRomanNumeral(input, keyTonic, keyType)
  /\ pc' = "resolved"
  /\ UNCHANGED <<inputType, input, keyTonic, keyType, call, ret, playVars>>

NextRoman == ResolveRoman

SpecRoman == InitRoman /\ [][NextRoman]_vars

\* The suffixes the table names, with some spellings in other letter case.
CatalogSuffixes ==
  UNION {LITERAL_SUFFIXES[k].alts : k \in 1..Len(LITERAL_SUFFIXES)}
    \cup {<<"M","A","J","7">>, <<"M","i","n","7">>, <<"M","I","N">>, <<"M">>,
          <<"D","i","m">>, <<"A","U","G">>, <<"S","u","s","4">>, <<"M","7","B","5">>}

LiteralSuffixPieces ==
  {<<"m">>, <<"M">>, <<"7">>, <<"m","a","j">>, <<"m","i","n">>, <<"b","5">>,
   <<"oslash">>, <<"-">>, <<"d","i","m">>, <<"deg">>, <<"a","u","g">>, <<"+">>,
   <<"s","u","s">>, <<"2">>, <<"4">>, <<"a","d","d">>, <<"9">>, <<"6">>,
   <<"Delta">>, <<" ">>, <<"x">>, <<"b">>, <<"#">>}

\* Every root, in either letter case, with every suffix of the table.
CatalogInputs ==
  {<<l>> \o a \o s : l \in NoteLetters, a \in Accidentals, s \in CatalogSuffixes}

\* A few roots with a rich suffix.
SuffixInputs ==
  {r \o s : r \in {<<"C">>, <<"F","#">>, <<"B","b">>, <<"a">>},
            s \in Concats(LiteralSuffixPieces, MaxLiteralParts)}

\* Padded and malformed chord names.
OddLiteralInputs ==
  {<< >>, <<" ">>, <<"H","z">>, <<"h">>, <<"#","C">>, <<"7">>, <<"m","7">>,
   <<" ","H"," ">>, <<"x","C","m">>, <<"H","m","7">>, <<"C","\n">>,
   <<"\n","C","m">>, <<"C","\n","m">>, <<"C","m","\n","7">>, <<"C","\t","m">>}
    \cup {<<" ">> \o r \o s \o <<" ", "\t">> :
            r \in {<<"C">>, <<"F","#">>, <<"e","b">>}, s \in CatalogSuffixes}
    \cup {r \o <<" ">> \o s :
            r \in {<<"C">>, <<"F","#">>, <<"e","b">>}, s \in CatalogSuffixes}

InitLiteral ==
  /\ inputType = "literal"
  /\ pc = "pending"
  /\ result = Err("")
  /\ call = NoCall
  /\ IdlePlay
  /\ ret = << >>
  /\ input \in CatalogInputs \cup SuffixInputs \cup OddLiteralInputs
  /\ keyTonic = <<"G">>
  /\ keyType = "major"

\* resolvedBlocks for a block of input type "literal".
ResolveLiteral ==
  /\ pc = "pending"
  /\ inputType = "literal"
  /\ result' = parseLiteralChord(input)
  /\ pc' = "resolved"
  /\ UNCHANGED <<inputType, input, keyTonic, keyType, call, ret, playVars>>

NextLiteral == ResolveLiteral

SpecLiteral == InitLiteral /\ [][NextLiteral]_vars

\* The timeline holds no block that matters to a library call.
IdleBlock ==
  /\ inputType = "none"
  /\ input = << >>
  /\ keyTonic = <<"G">>
  /\ keyType = "major"
  /\ result = Err("")

blockVars == <<inputType, input, keyTonic, keyType, result>>

InitCaged ==
  /\ IdleBlock
  /\ IdlePlay
  /\ pc = "pending"
  /\ ret = << >>
  /\ \E k \in 0..11, m \in Modes, lo \in 0..MaxFret, hi \in 0..MaxFret :
       call = [fn |-> "getCagedRegionsForKey", keyTonicPc |-> k, keyType |-> m,
               fretMin |-> lo, fretMax |-> hi]

CallGetCagedRegionsForKey ==
  /\ pc = "pending"
  /\ call.fn = "getCagedRegionsForKey"
  /\ ret' = getCagedRegionsForKey(call.keyTonicPc, call.keyType,
                                  call.fretMin, call.fretMax)
  /\ pc' = "resolved"
  /\ UNCHANGED <<blockVars, call, playVars>>

NextCaged == CallGetCagedRegionsForKey

SpecCaged == InitCaged /\ [][NextCaged]_vars

Region(id, lo, hi) ==
  [id |-> id, label |-> "", fretStart |-> lo, fretEnd |-> hi]

\* Region lists handed to the lookups directly: empty, single, overlapping,
\* out of order, and with an id that occurs twice.
GivenRegionLists ==
  { << >>,
    << Region("E", 3, 7) >>,
    << Region("C", 0, 4), Region("A", 2, 6), Region("G", 4, 8) >>,
    << Region("D", 8, 12), Region("C", 0, 4), Region("E", 4, 8) >>,
    << Region("A", 5, 5), Region("G", 5, 9), Region("E", 0, 15) >>,
    << Region("A", 1, 3), Region("A", 6, 9) >> }

\* The application computes the regions of the key on its own neck; the
\* lookups are also called on given lists.
InitRegions ==
  /\ IdleBlock
  /\ IdlePlay
  /\ pc = "pending"
  /\ ret = << >>
  /\ \/ \E k \in 0..11, m \in Modes :
          call = [fn |-> "getCagedRegionsForKey", keyTonicPc |-> k, keyType |-> m,
                  fretMin |-> 0, fretMax |-> FRET_COUNT - 1]
     \/ \E r \in GivenRegionLists, f \in 0..MaxFret :
          call = [fn |-> "getRegionsForFret", regions |-> r, fret |-> f,
                  from |-> "given"]
     \/ \E r \in GivenRegionLists, id \in CagedRegionIds :
          call = [fn |-> "getRegionWindow", regions |-> r, id |-> id,
                  from |-> "given"]

\* A cell of the fretboard asks which regions of the key hold its fret.
LookupRegionsForFret ==
  /\ pc = "resolved"
  /\ call.fn = "getCagedRegionsForKey"
  /\ \E f \in 0..(FRET_COUNT - 1) :
       call' = [fn |-> "getRegionsForFret", regions |-> ret, fret |-> f,
                from |-> "getCagedRegionsForKey"]
  /\ pc' = "pending"
  /\ ret' = << >>
  /\ UNCHANGED <<blockVars, playVars>>

\* The overlay asks for the window of the selected position.
LookupRegionWindow ==
  /\ pc = "resolved"
  /\ call.fn = "getCagedRegionsForKey"
  /\ \E id \in CagedRegionIds :
       call' = [fn |-> "getRegionWindow", regions |-> ret, id |-> id,
                from |-> "getCagedRegionsForKey"]
  /\ pc' = "pending"
  /\ ret' = << >>
  /\ UNCHANGED <<blockVars, playVars>>

CallGetRegionsForFret ==
  /\ pc = "pending"
  /\ call.fn = "getRegionsForFret"
  /\ ret' = getRegionsForFret(call.regions, call.fret)
  /\ pc' = "resolved"
  /\ UNCHANGED <<blockVars, call, playVars>>

CallGetRegionWindow ==
  /\ pc = "pending"
  /\ call.fn = "getRegionWindow"
  /\ ret' = getRegionWindow(call.regions, call.id)
  /\ pc' = "resolved"
  /\ UNCHANGED <<blockVars, call, playVars>>

NextRegions ==
  \/ CallGetCagedRegionsForKey
  \/ LookupRegionsForFret
  \/ LookupRegionWindow
  \/ CallGetRegionsForFret
  \/ CallGetRegionWindow

SpecRegions == InitRegions /\ [][NextRegions]_vars

ResolvedChords ==
  {[root |-> r, quality |-> q, intervals |-> CHORD_QUALITY_INTERVALS(q)] :
     r \in 0..11, q \in ChordQuality}

VoicingIds == {VOICINGS[k].id : k \in 1..Len(VOICINGS)}

\* The state the overlay and the voicing selector are computed from: the
\* chord of the block, its overlay mode and overrides, and the key.
InitOverlay ==
  /\ IdleBlock
  /\ IdlePlay
  /\ pc = "pending"
  /\ ret = << >>
  /\ \/ \E c \in ResolvedChords, v \in VoicingIds \cup {"undefined"} :
          call = [fn |-> "overlay", chord |-> c, mode |-> "voicing", voicingId |-> v,
                  pentatonicSource |-> "key", keyRoot |-> 0, keyType |-> "major"]
     \/ \E c \in ResolvedChords, m \in {"chordTones", "arpeggio", "scale"} :
          call = [fn |-> "overlay", chord |-> c, mode |-> m, voicingId |-> "undefined",
                  pentatonicSource |-> "key", keyRoot |-> 0, keyType |-> "major"]
     \/ \E c \in {d \in ResolvedChords : d.quality \in {"maj", "min", "min7", "m7b5"}},
           src \in {"key", "chordRoot", "undefined"}, k \in {0, 9}, m \in Modes :
          call = [fn |-> "overlay", chord |-> c, mode |-> "pentatonic",
                  voicingId |-> "undefined", pentatonicSource |-> src,
                  keyRoot |-> k, keyType |-> m]
     \/ \E m \in {"voicing", "pentatonic", "chordTones"} :
          call = [fn |-> "overlay", chord |-> NoChord, mode |-> m,
                  voicingId |-> "open-c-maj", pentatonicSource |-> "key",
                  keyRoot |-> 0, keyType |-> "major"]
     \/ \E c \in ResolvedChords \cup {NoChord}, f \in BOOLEAN :
          call = [fn |-> "buildVoicingOptions", chord |-> c, preferFlats |-> f]

CallOverlay ==
  /\ pc = "pending"
  /\ call.fn = "overlay"
  /\ ret' = overlay(call.chord, call.mode, call.voicingId, call.pentatonicSource,
                    call.keyRoot, call.keyType)
  /\ pc' = "resolved"
  /\ UNCHANGED <<blockVars, call, playVars>>

CallBuildVoicingOptions ==
  /\ pc = "pending"
  /\ call.fn = "buildVoicingOptions"
  /\ ret' = buildVoicingOptions(call.chord, call.preferFlats)
  /\ pc' = "resolved"
  /\ UNCHANGED <<blockVars, call, playVars>>

NextOverlay == CallOverlay \/ CallBuildVoicingOptions

SpecOverlay == InitOverlay /\ [][NextOverlay]_vars

InitVoicing ==
  /\ IdleBlock
  /\ IdlePlay
  /\ pc = "pending"
  /\ ret = << >>
  /\ \E k \in 1..Len(VOICINGS), t \in 0..MaxTargetRoot :
       \/ call = [fn |-> "resolveVoicingFrets", shape |-> VOICINGS[k], targetRoot |-> t]
       \/ \E f \in BOOLEAN :
            call = [fn |-> "voicingLabel", shape |-> VOICINGS[k], targetRoot |-> t,
                    preferFlats |-> f]

CallResolveVoicingFrets ==
  /\ pc = "pending"
  /\ call.fn = "resolveVoicingFrets"
  /\ ret' = resolveVoicingFrets(call.shape, call.targetRoot)
  /\ pc' = "resolved"
  /\ UNCHANGED <<blockVars, call, playVars>>

CallVoicingLabel ==
  /\ pc = "pending"
  /\ call.fn = "voicingLabel"
  /\ ret' = voicingLabel(call.shape, call.targetRoot, call.preferFlats)
  /\ pc' = "resolved"
  /\ UNCHANGED <<blockVars, call, playVars>>

NextVoicing == CallResolveVoicingFrets \/ CallVoicingLabel

SpecVoicing == InitVoicing /\ [][NextVoicing]_vars

InitTheory ==
  /\ IdleBlock
  /\ IdlePlay
  /\ pc = "pending"
  /\ ret = << >>
  /\ \/ \E r \in 0..11, q \in ChordQuality :
          call = [fn |-> "chordToneSet",
                  chord |-> [root |-> r, quality |-> q,
                             intervals |-> CHORD_QUALITY_INTERVALS(q)]]
     \/ \E r \in 0..11, m \in Modes, f \in {"buildScale", "buildPentatonic"} :
          call = [fn |-> f, root |-> r, type |-> m]

CallChordToneSet ==
  /\ pc = "pending"
  /\ call.fn = "chordToneSet"
  /\ ret' = chordToneSet(call.chord)
  /\ pc' = "resolved"
  /\ UNCHANGED <<blockVars, call, playVars>>

CallBuildScale ==
  /\ pc = "pending"
  /\ call.fn = "buildScale"
  /\ ret' = buildScale(call.root, call.type)
  /\ pc' = "resolved"
  /\ UNCHANGED <<blockVars, call, playVars>>

CallBuildPentatonic ==
  /\ pc = "pending"
  /\ call.fn = "buildPentatonic"
  /\ ret' = buildPentatonic(call.root, call.type)
  /\ pc' = "resolved"
  /\ UNCHANGED <<blockVars, call, playVars>>

NextTheory == CallChordToneSet \/ CallBuildScale \/ CallBuildPentatonic

SpecTheory == InitTheory /\ [][NextTheory]_vars

\* A note letter in either case, alone or followed by one sign; the sign
\* is "#", "b", or the capital a text in capitals holds in place of "b".
NoteNameTexts ==
  {<<l>> : l \in NoteLetters} \cup {<<l, a>> : l \in NoteLetters, a \in {"#", "b", "B"}}

Pads == Concats({<<" ">>, <<"\t">>}, MaxPad)

\* Texts that hold more than a note name, or none.
OddNoteTexts ==
  { << >>, <<" ">>, <<"H">>, <<"h", "#">>, <<"#", "C">>, <<"1">>, <<" ", "x", "b">>,
    <<"C", " ", "#">>, <<"C", "#", "#">>, <<"C", "x">>, <<"D", "b", "b">>,
    <<"b", " ", "b">>, <<"\t", "#">> }

PitchInputs ==
  {pre \o n \o post : pre \in Pads, n \in NoteNameTexts, post \in Pads} \cup OddNoteTexts

InitPitch ==
  /\ IdleBlock
  /\ IdlePlay
  /\ pc = "pending"
  /\ ret = << >>
  /\ \/ \E n \in PitchInputs : call = [fn |-> "toPitchClass", note |-> n]
     \/ \E p \in 0..11, f \in BOOLEAN :
          call = [fn |-> "formatPitchClass", pc |-> p, preferFlats |-> f]

CallToPitchClass ==
  /\ pc = "pending"
  /\ call.fn = "toPitchClass"
  /\ ret' = toPitchClass(call.note)
  /\ pc' = "resolved"
  /\ UNCHANGED <<blockVars, call, playVars>>

CallFormatPitchClass ==
  /\ pc = "pending"
  /\ call.fn = "formatPitchClass"
  /\ ret' = formatPitchClass(call.pc, call.preferFlats)
  /\ pc' = "resolved"
  /\ UNCHANGED <<blockVars, call, playVars>>

NextPitch == CallToPitchClass \/ CallFormatPitchClass

SpecPitch == InitPitch /\ [][NextPitch]_vars

World == [app |-> app, scheduler |-> scheduler, browser |-> browser]

SetWorld(w) ==
  /\ app' = w.app
  /\ scheduler' = w.scheduler
  /\ browser' = w.browser

\* Tempi whose beat is a whole number of time units (0.10 s and 0.05 s), and 0.
Tempi == {0, 600, 1200}

\* The configurations a scheduler is started with at the present time.
Configs ==
  {[bpm |-> b, beatsPerBar |-> n, clickEnabled |-> c, startTime |-> t] :
     b \in Tempi, n \in {3, 4}, c \in BOOLEAN,
     t \in {browser.currentTime, browser.currentTime + 15}}

\* A scheduler on its own: the component is left out.
InitMetronome ==
  /\ IdleBlock
  /\ pc = "running"
  /\ ret = << >>
  /\ call = [fn |-> "constructor"]
  /\ app = NewApp
  /\ scheduler = NewScheduler
  /\ browser = NewBrowser

SchedulerStart ==
  /\ pc = "running"
  /\ \E config \in Configs :
       /\ SetWorld(MetronomeStart(World, config))
       /\ call' = [fn |-> "start", config |-> config]
  /\ UNCHANGED <<blockVars, pc, ret>>

SchedulerUpdateConfig ==
  /\ pc = "running"
  /\ \E config \in Configs :
       /\ SetWorld(MetronomeUpdateConfig(World, config))
       /\ call' = [fn |-> "updateConfig", config |-> config]
  /\ UNCHANGED <<blockVars, pc, ret>>

SchedulerStop ==
  /\ pc = "running"
  /\ SetWorld(MetronomeStop(World))
  /\ call' = [fn |-> "stop"]
  /\ UNCHANGED <<blockVars, pc, ret>>

\* The callback of an active interval timer.
SchedulerTick ==
  /\ pc = "running"
  /\ browser.timers # {}
  /\ SetWorld(MetronomeTick(World))
  /\ call' = [fn |-> "tick"]
  /\ UNCHANGED <<blockVars, pc, ret>>

\* The audio clock moves on by 0.01 s, up to a horizon; a longer wait is
\* several steps.
ClockMoves(horizon) ==
  /\ pc = "running"
  /\ browser.currentTime < ClockStep * horizon
  /\ browser' = [browser EXCEPT !.currentTime = @ + ClockStep]
  /\ call' = [fn |-> "clock"]
  /\ UNCHANGED <<blockVars, pc, ret, app, scheduler>>

AdvanceClock == ClockMoves(MaxClockSteps)

NextMetronome ==
  \/ SchedulerStart
  \/ SchedulerUpdateConfig
  \/ SchedulerStop
  \/ SchedulerTick
  \/ AdvanceClock

SpecMetronome == InitMetronome /\ [][NextMetronome]_vars

\* The tempi typed into the BPM field: a fast one whose beat is one time
\* unit, zero (the field cleared) and a negative one.
TempoInputs == {18000, 0, -90}

\* The values typed into the bars field of a block: the field cleared, and 1.
BarsInputs == {0, 1}

InitPlayback ==
  /\ IdleBlock
  /\ pc = "running"
  /\ ret = << >>
  /\ call = [fn |-> "mount"]
  /\ app = NewApp
  /\ scheduler = NewScheduler
  /\ browser = NewBrowser

\* The Play / Stop button.
ClickPlayStop ==
  /\ pc = "running"
  /\ SetWorld(IF app.isPlaying THEN stopPlayback(World) ELSE startPlayback(World))
  /\ call' = [fn |-> "playStop"]
  /\ UNCHANGED <<blockVars, pc, ret>>

\* handleAddBlock: a block of 2 bars at the end.
AddBlock ==
  /\ pc = "running"
  /\ Len(app.bars) < MaxBlocks
  /\ SetWorld(restartEffect([World EXCEPT !.app.bars = Append(@, 2)]))
  /\ call' = [fn |-> "addBlock"]
  /\ UNCHANGED <<blockVars, pc, ret>>

\* updateBlock / updateBlockOverride: any edit makes a new block list; an
\* edit of the bars field sets Math.max(1, value).
EditBlock ==
  /\ pc = "running"
  /\ \E i \in 1..Len(app.bars), value \in BarsInputs :
       SetWorld(restartEffect([World EXCEPT !.app.bars[i] = MathMax(1, value)]))
  /\ call' = [fn |-> "updateBlock"]
  /\ UNCHANGED <<blockVars, pc, ret>>

\* moveBlock: nothing changes when the new index is off the list.
MoveBlock ==
  /\ pc = "running"
  /\ \E index \in 0..(Len(app.bars) - 1), direction \in {-1, 1} :
       LET newIndex == index + direction
       IN  IF newIndex < 0 \/ newIndex >= Len(app.bars)
           THEN UNCHANGED playVars
           ELSE SetWorld(restartEffect(
                  [World EXCEPT !.app.bars = MoveItem(@, index, newIndex)]))
  /\ call' = [fn |-> "moveBlock"]
  /\ UNCHANGED <<blockVars, pc, ret>>

RemoveBlock ==
  /\ pc = "running"
  /\ \E index \in 0..(Len(app.bars) - 1) :
       SetWorld(restartEffect([World EXCEPT !.app.bars = RemoveItem(@, index)]))
  /\ call' = [fn |-> "removeBlock"]
  /\ UNCHANGED <<blockVars, pc, ret>>

\* The BPM field; the effect runs only when the value changed.
ChangeTempo ==
  /\ pc = "running"
  /\ \E bpm \in TempoInputs :
       IF bpm = app.bpm THEN UNCHANGED playVars
       ELSE SetWorld(restartEffect([World EXCEPT !.app.bpm = bpm]))
  /\ call' = [fn |-> "setBpm"]
  /\ UNCHANGED <<blockVars, pc, ret>>

ToggleMetronome ==
  /\ pc = "running"
  /\ SetWorld(restartEffect([World EXCEPT !.app.metronomeEnabled = ~@]))
  /\ call' = [fn |-> "toggleMetronome"]
  /\ UNCHANGED <<blockVars, pc, ret>>

\* The audio clock during playback.
PlaybackClock == ClockMoves(MaxPlaySteps)

\* A pending animation frame runs its callback.
AnimationFrame ==
  /\ pc = "running"
  /\ \E frame \in browser.frames : SetWorld(update(World, frame))
  /\ call' = [fn |-> "update"]
  /\ UNCHANGED <<blockVars, pc, ret>>

NextPlayback ==
  \/ ClickPlayStop
  \/ AddBlock
  \/ EditBlock
  \/ MoveBlock
  \/ RemoveBlock
  \/ ChangeTempo
  \/ ToggleMetronome
  \/ AnimationFrame
  \/ SchedulerTick
  \/ PlaybackClock

SpecPlayback == InitPlayback /\ [][NextPlayback]_vars

\* The whole program: each library function on its inputs, the scheduler
\* on its own, and the component.
Init ==
  \/ InitRoman \/ InitLiteral \/ InitCaged \/ InitVoicing \/ InitTheory
  \/ InitPitch \/ InitRegions \/ InitOverlay \/ InitMetronome \/ InitPlayback

Next ==
  \/ NextRoman \/ NextLiteral \/ NextCaged \/ NextVoicing \/ NextTheory
  \/ NextPitch \/ NextRegions \/ NextOverlay \/ NextMetronome \/ NextPlayback

Spec == Init /\ [][Next]_vars

---------------------------------------------------------------------------
(* The vocabulary of the properties below, independent of the parsers.     *)

AccidentalText(a) == CASE a = -1 -> <<"b">> [] a = 0 -> << >> [] a = 1 -> <<"#">>

RomanText == << <<"I">>, <<"I","I">>, <<"I","I","I">>, <<"I","V">>, <<"V">>,
                <<"V","I">>, <<"V","I","I">> >>

\* The numeral of degree d in upper or lower case.
NumeralText(d, lower) == IF lower THEN toLowerCase(RomanText[d]) ELSE RomanText[d]

\* Degree d of the scale of a key, as the specification gives it.
ScaleDegree(keyPc, mode, d) ==
  LET iv == IF mode = "major" THEN <<0, 2, 4, 5, 7, 9, 11>>
                              ELSE <<0, 2, 3, 5, 7, 8, 10>>
  IN  (keyPc + iv[d]) % 12

ResolvedDegree(keyPc, mode, d, a) == (ScaleDegree(keyPc, mode, d) + a) % 12

\* The pitch class of a note name: a letter and an optional accidental.
NamePc(name) ==
  LET base == CASE name[1] = "C" -> 0 [] name[1] = "D" -> 2 [] name[1] = "E" -> 4
                [] name[1] = "F" -> 5 [] name[1] = "G" -> 7 [] name[1] = "A" -> 9
                [] name[1] = "B" -> 11
      acc == IF Len(name) = 1 THEN 0 ELSE IF name[2] = "#" THEN 1 ELSE -1
  IN  (base + acc) % 12

RomanResolved == pc = "resolved" /\ inputType = "roman"
LiteralResolved == pc = "resolved" /\ inputType = "literal"

\* The input is L/R for one "/" only: the position of the slash, or 0.
SlashAt ==
  LET idx == {k \in 1..Len(input) : input[k] = "/"}
  IN  IF Cardinality(idx) = 1 THEN Min(idx) ELSE 0
LeftOfSlash == SubSeq(input, 1, SlashAt - 1)
RightOfSlash == SubSeq(input, SlashAt + 1, Len(input))

\* The root the claims give a secondary form whose left side is `shift`
\* semitones above its target: for every reading of the right side as an
\* accidental and a degree, the chord is rooted that far above that degree.
SecondaryRootIs(shift) ==
  \A a \in -1..1, d \in 1..7, lower \in BOOLEAN :
    RightOfSlash = AccidentalText(a) \o NumeralText(d, lower) =>
      /\ result.ok
      /\ result.chord.root =
           (ResolvedDegree(NamePc(keyTonic), keyType, d, a) + shift) % 12

\* The input is a slash-free token: an accidental, the numeral n, a suffix
\* that does not go on with a numeral letter.
IsTokenOf(a, n) ==
  LET t == a \o n
  IN  /\ \A k \in 1..Len(input) : input[k] # "/" /\ ~IsSpace(input[k])
      /\ startsWith(input, t)
      /\ (Len(input) = Len(t) \/ input[Len(t) + 1] \notin RomanChars)

SuffixAfter(a, n) == SubSeq(input, Len(a) + Len(n) + 1, Len(input))

---------------------------------------------------------------------------
(* C1: for every valid root, root+"m7" and root+"min7" parse to min7 with  *)
(* intervals 0,3,7,10; "m7" is never read as maj7 or min.                  *)
C1_MinorSeventhSuffix ==
  LiteralResolved =>
    \A r \in ValidNoteNames, s \in {<<"m","7">>, <<"m","i","n","7">>} :
      input = r \o s =>
        /\ result.ok
        /\ result.chord.quality = "min7"
        /\ result.chord.intervals = <<0, 3, 7, 10>>

(* C2: a secondary form whose left-hand numeral is VII succeeds with root  *)
(* (resolved degree of the right-hand side + 11) mod 12.                   *)
C2_SecondaryLeadingToneRoot ==
  (RomanResolved /\ SlashAt > 0 /\ keyTonic \in ValidNoteNames
     /\ LeftOfSlash \in {<<"V","I","I">>, <<"v","i","i">>, <<"v","i","i","deg">>,
                         <<"V","I","I","deg">>})
  => SecondaryRootIs(11)

(* C3: a secondary form whose left-hand numeral has degree I, II, III, IV  *)
(* or VI fails as unsupported and gives no chord.                          *)
C3_OtherSecondaryFormsFail ==
  (RomanResolved /\ SlashAt > 0 /\ keyTonic \in ValidNoteNames
     /\ RightOfSlash \in SecondaryRight
     /\ \E a \in Accidentals, d \in {1, 2, 3, 4, 6}, lower \in BOOLEAN,
           s \in {<< >>, <<"deg">>} :
          LeftOfSlash = a \o NumeralText(d, lower) \o s)
  => /\ ~result.ok
     /\ result.error = "Only V/x or VII(deg)/x supported in MVP."

(* C4: "V/Y" succeeds with root (resolved degree of Y + 7) mod 12, for     *)
(* every valid key, mode and target Y; "V/ii" in C major has root 9.       *)
C4_SecondaryDominantRoot ==
  (RomanResolved /\ SlashAt > 0 /\ keyTonic \in ValidNoteNames
     /\ LeftOfSlash = <<"V">>)
  => /\ SecondaryRootIs(7)
     /\ (RightOfSlash = <<"i","i">> /\ keyTonic = <<"C">> /\ keyType = "major")
          => result.ok /\ result.chord.root = 9

C4_Witness ==
  /\ RomanResolved
  /\ input = <<"V","/","b","V","I","I">>
  /\ keyTonic = <<"E","b">> /\ keyType = "minor"
  /\ result.ok /\ result.chord.root = 7

C6_FlatSevenInAMinor ==
  (RomanResolved /\ input = <<"b","V","I","I">> /\ keyTonic = <<"A">>
     /\ keyType = "minor")
  => result.ok /\ result.chord.quality = "maj" /\ result.chord.root = 7

\* The suffix markers the claims name, in either letter case.
HasQualityMarker(suffix) ==
  \/ Contains(suffix, <<"oslash">>)
  \/ Contains(suffix, <<"deg">>)
  \/ ContainsI(suffix, <<"d","i","m">>)
  \/ ContainsI(suffix, <<"o">>)
  \/ Contains(suffix, <<"+">>)
  \/ ContainsI(suffix, <<"a","u","g">>)

(* C7: a numeral whose suffix is non-empty and holds no quality marker     *)
(* (such as "V7") fails as an unsupported quality and gives no chord.      *)
C7_UnknownSuffixFails ==
  (RomanResolved /\ keyTonic \in ValidNoteNames) =>
    \A a \in Accidentals, n \in Numerals :
      (/\ IsTokenOf(a, n)
       /\ SuffixAfter(a, n) # << >>
       /\ ~HasQualityMarker(SuffixAfter(a, n)))
      => /\ ~result.ok
         /\ result.error = "Unsupported roman numeral quality."

\* The quality of C8 as stated: an "o" counts only as the last character.
QualityTrailingO(suffix, lower) ==
  IF Contains(suffix, <<"oslash">>) THEN "m7b5"
  ELSE IF \/ Contains(suffix, <<"deg">>)
          \/ ContainsI(suffix, <<"d","i","m">>)
          \/ (Len(suffix) > 0 /\ ToLowerChar(suffix[Len(suffix)]) = "o") THEN "dim"
  ELSE IF Contains(suffix, <<"+">>) \/ ContainsI(suffix, <<"a","u","g">>) THEN "aug"
  ELSE IF lower THEN "min" ELSE "maj"

\* The quality of C8 as amended: an "o" counts wherever it stands.
QualityAnyO(suffix, lower) ==
  IF Contains(suffix, <<"oslash">>) THEN "m7b5"
  ELSE IF \/ Contains(suffix, <<"deg">>)
          \/ ContainsI(suffix, <<"d","i","m">>)
          \/ \E k \in 1..Len(suffix) : suffix[k] \in {"o", "O"} THEN "dim"
  ELSE IF Contains(suffix, <<"+">>) \/ ContainsI(suffix, <<"a","u","g">>) THEN "aug"
  ELSE IF lower THEN "min" ELSE "maj"

(* C8 as stated: the quality follows the priority half-diminished,         *)
(* diminished (degree sign, "dim" or a final "o"), augmented, then letter  *)
(* case; an "o" that is not the last character of the suffix does not make *)
(* the chord diminished.                                                   *)
C8_QualityPriority_TrailingO ==
  (RomanResolved /\ keyTonic \in ValidNoteNames) =>
    \A a \in Accidentals, d \in 1..7, lower \in BOOLEAN :
      IsTokenOf(a, NumeralText(d, lower)) =>
        /\ result.ok
        /\ result.chord.quality =
             QualityTrailingO(SuffixAfter(a, NumeralText(d, lower)), lower)

(* C8 as amended: the same priority, where an "o" or "O" anywhere in the   *)
(* suffix (and "dim", "aug" in any letter case) is a marker.               *)
C8_QualityPriority ==
  (RomanResolved /\ keyTonic \in ValidNoteNames) =>
    \A a \in Accidentals, d \in 1..7, lower \in BOOLEAN :
      IsTokenOf(a, NumeralText(d, lower)) =>
        /\ result.ok
        /\ result.chord.quality =
             QualityAnyO(SuffixAfter(a, NumeralText(d, lower)), lower)

C8_Witness ==
  /\ RomanResolved
  /\ input = <<"v","i","i","o","7">>
  /\ result.ok /\ result.chord.quality = "dim"

\* A failure: the tag, an error string, and no chord.
FailsWith(error) ==
  /\ ~result.ok
  /\ result.error = error
  /\ "chord" \notin DOMAIN result

\* The text starts with an optional b/# and then one of I..VII in any case.
StartsWithNumeral(t) ==
  LET rest == IF Len(t) >= 1 /\ t[1] \in {"b", "#"} THEN SubSeq(t, 2, Len(t)) ELSE t
  IN  \E n \in UpperNumerals : startsWith(toUpperCase(rest), n)

\* The text is an optional b/#, one of I..VII in any case, and a suffix that
\* does not go on with a numeral letter.
IsNumeralToken(t) ==
  LET rest == IF Len(t) >= 1 /\ t[1] \in {"b", "#"} THEN SubSeq(t, 2, Len(t)) ELSE t
  IN  \E n \in UpperNumerals :
        /\ startsWith(toUpperCase(rest), n)
        /\ \A k \in 1..Len(n) : rest[k] \in RomanChars
        /\ (Len(rest) = Len(n) \/ rest[Len(n) + 1] \notin RomanChars)

(* C9: each structural error gives a tagged failure with an error string   *)
(* and no chord: blank text; more than one "/"; a main token that is not   *)
(* an optional b/# and one of I..VII; a key tonic that is no note name; a  *)
(* right-hand token that is not an optional b/# and one of I..VII.         *)
C9_StructuralErrors ==
  RomanResolved =>
    LET clean == SelectSeq(input, LAMBDA c : ~IsSpace(c))
        slashes == {k \in 1..Len(clean) : clean[k] = "/"}
        main == IF slashes = {} THEN clean ELSE SubSeq(clean, 1, Min(slashes) - 1)
        right == SubSeq(clean, Min(slashes) + 1, Len(clean))
    IN  /\ clean = << >> => FailsWith("Empty roman numeral.")
        /\ Cardinality(slashes) > 1 => FailsWith("Too many secondary dominants.")
        /\ (clean # << >> /\ Cardinality(slashes) <= 1 /\ ~StartsWithNumeral(main))
             => FailsWith("Invalid roman numeral.")
        /\ (Cardinality(slashes) <= 1 /\ IsNumeralToken(main)
              /\ keyTonic \in InvalidKeyNames)
             => FailsWith("Invalid key tonic.")
        /\ (Cardinality(slashes) = 1 /\ IsNumeralToken(main)
              /\ keyTonic \notin InvalidKeyNames /\ ~StartsWithNumeral(right))
             => FailsWith("Invalid secondary target.")

C9_Witness ==
  /\ RomanResolved
  /\ input = <<"V","/","i","i","/","V">>
  /\ keyTonic = <<"H">>
  /\ ~result.ok /\ result.error = "Too many secondary dominants."

\* The suffixes of C10 with the quality each names.
SuffixQuality ==
  { <<<<"m","a","j","7">>, "maj7">>, <<<<"m","7","b","5">>, "m7b5">>,
    <<<<"oslash">>, "m7b5">>, <<<<"7">>, "dom7">>, <<<<"m">>, "min">>,
    <<<<"m","i","n">>, "min">>, <<<<"-">>, "min">>, <<<<"d","i","m">>, "dim">>,
    <<<<"deg">>, "dim">>, <<<<"a","u","g">>, "aug">>, <<<<"+">>, "aug">>,
    <<<<"s","u","s","2">>, "sus2">>, <<<<"s","u","s","4">>, "sus4">>,
    <<<<"a","d","d","9">>, "add9">>, <<<<"6">>, "6">>, <<<<"9">>, "9">>,
    <<<< >>, "maj">> }

(* C10: for every valid root and every catalog suffix other than the min7  *)
(* ones, the literal parser succeeds with the root's pitch class, the      *)
(* quality the suffix names and the intervals of the interval table;       *)
(* "Cmaj7" gives (0, maj7) and "F#m7b5" gives (6, m7b5).                   *)
C10_LiteralCatalog ==
  LiteralResolved =>
    /\ \A r \in ValidNoteNames, sq \in SuffixQuality :
         input = r \o sq[1] =>
           /\ result.ok
           /\ result.chord.root = NamePc(r)
           /\ result.chord.quality = sq[2]
           /\ result.chord.intervals = CHORD_QUALITY_INTERVALS(sq[2])
    /\ input = <<"C","m","a","j","7">> =>
         result.ok /\ result.chord.root = 0 /\ result.chord.quality = "maj7"
    /\ input = <<"F","#","m","7","b","5">> =>
         result.ok /\ result.chord.root = 6 /\ result.chord.quality = "m7b5"

C10_Witness ==
  /\ LiteralResolved
  /\ input = <<"F","#","m","7","b","5">>
  /\ result.ok /\ result.chord.root = 6 /\ result.chord.quality = "m7b5"
  /\ result.chord.intervals = <<0, 3, 6, 10>>

\* The text without the blanks before and after it.
RECURSIVE DropLeadingBlanks(_)
DropLeadingBlanks(s) ==
  IF s # << >> /\ IsSpace(Head(s)) THEN DropLeadingBlanks(Tail(s)) ELSE s

Reversed(s) == [k \in 1..Len(s) |-> s[Len(s) + 1 - k]]

Unpadded(s) == Reversed(DropLeadingBlanks(Reversed(DropLeadingBlanks(s))))

\* The suffix is, letter case aside, one of the alternatives of the table.
InCatalog(suffix) ==
  \E k \in 1..Len(LITERAL_SUFFIXES) :
    \E a \in LITERAL_SUFFIXES[k].alts : toLowerCase(suffix) = toLowerCase(a)

(* C11: the literal parser fails in exactly two cases: the trimmed text    *)
(* does not begin with a letter A-G (invalid root), or the root is valid   *)
(* and the rest matches no pattern of the table (unsupported suffix, the   *)
(* message carrying the suffix and never "(none)").                        *)
C11_LiteralFailures ==
  LiteralResolved =>
    LET t == Unpadded(input)
        badRoot == t = << >> \/ t[1] \notin NoteLetters
        rootLen == IF Len(t) >= 2 /\ t[2] \in {"#", "b"} THEN 2 ELSE 1
        suffix == Unpadded(SubSeq(t, rootLen + 1, Len(t)))
    IN  /\ badRoot => FailsWith("Invalid chord root.")
        /\ (~badRoot /\ ~InCatalog(suffix)) =>
             /\ FailsWith("Unsupported chord suffix: ")
             /\ result.detail = suffix
             /\ result.detail # <<"(none)">>
        /\ (~badRoot /\ InCatalog(suffix)) => result.ok

---------------------------------------------------------------------------
(* CAGED regions: vocabulary of the claims.                                *)

CagedResolved == pc = "resolved" /\ call.fn = "getCagedRegionsForKey"

\* The windows of the five shapes in the reference key of each mode.
ReferenceWindows(mode) ==
  IF mode = "major"
  THEN << <<"C", 0, 4>>, <<"A", 2, 6>>, <<"G", 2, 6>>, <<"E", 7, 11>>, <<"D", 8, 12>> >>
  ELSE << <<"A", 0, 3>>, <<"G", 3, 7>>, <<"E", 4, 8>>, <<"D", 8, 12>>, <<"C", 9, 13>> >>

ReferenceTonicPc(mode) == IF mode = "major" THEN 0 ELSE 9

\* The frets of the window lo..hi moved by shift that lie on the neck.
FretsOnNeck(lo, hi, shift, fretMin, fretMax) ==
  {f \in (lo + shift)..(hi + shift) : fretMin <= f /\ f <= fretMax}

\* The two candidate fret sets of a reference window for the called key.
Candidates(w) ==
  LET diff == (call.keyTonicPc - ReferenceTonicPc(call.keyType)) % 12
  IN  { FretsOnNeck(w[2], w[3], diff, call.fretMin, call.fretMax),
        FretsOnNeck(w[2], w[3], diff - 12, call.fretMin, call.fretMax) }

ClampedLength(S) == Max(S) - Min(S)

RegionsOf(id) == {k \in 1..Len(ret) : ret[k].id = id}

RegionIs(id, lo, hi) ==
  \E k \in 1..Len(ret) : ret[k].id = id /\ ret[k].fretStart = lo /\ ret[k].fretEnd = hi

(* C12: every returned region is the clamped window of a shift candidate   *)
(* (diff or diff - 12) of largest clamped length, and a template is left   *)
(* out exactly when both candidates clamp to nothing; for F# major on      *)
(* frets 0..15 the E shape is [1,5] and the D shape is [2,6].              *)
C12_LargerClampedCandidate ==
  CagedResolved =>
    /\ \A j \in 1..5 :
         LET w == ReferenceWindows(call.keyType)[j]
             live == {S \in Candidates(w) : S # {}}
         IN  /\ (RegionsOf(w[1]) = {}) <=> (live = {})
             /\ \A k \in RegionsOf(w[1]) :
                  \E S \in live :
                    /\ ret[k].fretStart = Min(S)
                    /\ ret[k].fretEnd = Max(S)
                    /\ \A T \in live : ClampedLength(T) <= ClampedLength(S)
    /\ ( /\ call.keyTonicPc = 6
         /\ call.keyType = "major"
         /\ call.fretMin = 0
         /\ call.fretMax = 15 ) =>
         /\ RegionIs("E", 1, 5) /\ ~RegionIs("E", 13, 15)
         /\ RegionIs("D", 2, 6) /\ ~RegionIs("D", 14, 15)

\* F# major on frets 0..15: the lower candidate of the E shape was chosen.
C12_Witness ==
  /\ CagedResolved
  /\ call.keyTonicPc = 6 /\ call.keyType = "major"
  /\ call.fretMin = 0 /\ call.fretMax = 15
  /\ RegionIs("E", 1, 5)

(* C13: in the reference key of the mode on frets 0..15 the result is the  *)
(* five reference windows, unshifted and in template order.                *)
C13_ReferenceKeyUnshifted ==
  ( /\ CagedResolved
    /\ call.keyTonicPc = ReferenceTonicPc(call.keyType)
    /\ call.fretMin = 0
    /\ call.fretMax = 15 ) =>
    /\ Len(ret) = 5
    /\ \A j \in 1..5 :
         LET w == ReferenceWindows(call.keyType)[j]
         IN  /\ ret[j].id = w[1]
             /\ ret[j].fretStart = w[2]
             /\ ret[j].fretEnd = w[3]

\* A minor on frets 0..15 was computed.
C13_Witness ==
  /\ CagedResolved
  /\ call.keyTonicPc = 9 /\ call.keyType = "minor"
  /\ call.fretMin = 0 /\ call.fretMax = 15
  /\ Len(ret) = 5

(* C14: for fretMin <= fretMax every region lies inside the bounds with    *)
(* fretStart <= fretEnd, there are at most five regions, and no shape id   *)
(* occurs twice.                                                           *)
C14_RegionsWithinBounds ==
  (CagedResolved /\ call.fretMin <= call.fretMax) =>
    /\ Len(ret) \in 0..5
    /\ \A k \in 1..Len(ret) :
         /\ call.fretMin <= ret[k].fretStart
         /\ ret[k].fretStart <= ret[k].fretEnd
         /\ ret[k].fretEnd <= call.fretMax
         /\ ret[k].id \in {"C", "A", "G", "E", "D"}
    /\ \A k, l \in 1..Len(ret) : ret[k].id = ret[l].id => k = l

\* A region cut short by the upper bound of the neck.
C14_Witness ==
  /\ CagedResolved
  /\ call.fretMin <= call.fretMax
  /\ \E k \in 1..Len(ret) :
       /\ ret[k].fretEnd = call.fretMax
       /\ ret[k].fretEnd - ret[k].fretStart < 3

---------------------------------------------------------------------------
(* Voicings: vocabulary of the claims.                                     *)

FretsResolved == pc = "resolved" /\ call.fn = "resolveVoicingFrets"

LabelResolved == pc = "resolved" /\ call.fn = "voicingLabel"

\* The distance in frets from the base root of the called shape up to the
\* pitch class of the target root.
ShapeOffset == ((call.targetRoot % 12) - NamePc(<<call.shape.baseRoot>>)) % 12

(* C15: for a movable shape a muted string stays -1 and every other string *)
(* is raised by offset = (targetRoot - base root) mod 12, which lies in    *)
(* 0..11; the base root itself and any target root 12 higher give the      *)
(* frets of the unshifted request.                                         *)
C15_MovableTransposition ==
  (FretsResolved /\ call.shape.movable) =>
    /\ ShapeOffset \in 0..11
    /\ Len(ret) = Len(call.shape.frets)
    /\ \A k \in 1..Len(ret) :
         ret[k] = IF call.shape.frets[k] = -1 THEN -1
                  ELSE call.shape.frets[k] + ShapeOffset
    /\ (call.targetRoot % 12 = NamePc(<<call.shape.baseRoot>>)) =>
         ret = call.shape.frets

\* An A shape with a muted string asked for an octave above its base root.
C15_Witness ==
  /\ FretsResolved
  /\ call.shape.movable
  /\ call.shape.frets[1] = -1
  /\ call.targetRoot = 21
  /\ ret = call.shape.frets

(* C16: for a shape that is not movable the frets are the shape's own list *)
(* and the label is the shape's fixed name, for every target root.         *)
C16_FixedShapesUnchanged ==
  /\ (FretsResolved /\ ~call.shape.movable) => ret = call.shape.frets
  /\ (LabelResolved /\ ~call.shape.movable) => ret = <<call.shape.name>>

\* The label of an open shape asked for a root that is not its own.
C16_Witness ==
  /\ LabelResolved
  /\ ~call.shape.movable
  /\ call.targetRoot % 12 # NamePc(<<call.shape.baseRoot>>)
  /\ ret = <<call.shape.name>>

---------------------------------------------------------------------------
(* Chord tones and scales: vocabulary of the claims.                       *)

TonesResolved == pc = "resolved" /\ call.fn = "chordToneSet"

ScaleResolved == pc = "resolved" /\ call.fn = "buildScale"

PentatonicResolved == pc = "resolved" /\ call.fn = "buildPentatonic"

Elements(s) == {s[k] : k \in 1..Len(s)}

PairwiseDistinct(s) == \A k, l \in 1..Len(s) : s[k] = s[l] => k = l

(* C17: the tones of a chord are pitch classes 0..11, include the root,    *)
(* never repeat, and are the set of (root + i) mod 12 over the intervals   *)
(* of the quality; a "9" chord on root 0 has the tones {0,4,7,10,2}.       *)
C17_ChordTones ==
  TonesResolved =>
    LET table == CHORD_QUALITY_INTERVALS(call.chord.quality)
    IN  /\ Elements(ret) \subseteq 0..11
        /\ call.chord.root \in Elements(ret)
        /\ PairwiseDistinct(ret)
        /\ Elements(ret) = {(call.chord.root + table[k]) % 12 : k \in 1..Len(table)}
        /\ (call.chord.quality = "9" /\ call.chord.root = 0) =>
             Elements(ret) = {0, 4, 7, 10, 2}

\* A ninth chord whose ninth comes back inside the octave.
C17_Witness ==
  /\ TonesResolved
  /\ call.chord.quality = "9"
  /\ call.chord.root = 0
  /\ ret = <<0, 4, 7, 10, 2>>

\* The interval lists of the two modes.
ScaleIntervals(mode) ==
  IF mode = "major" THEN <<0, 2, 4, 5, 7, 9, 11>> ELSE <<0, 2, 3, 5, 7, 8, 10>>

PentatonicIntervals(mode) ==
  IF mode = "major" THEN <<0, 2, 4, 7, 9>> ELSE <<0, 3, 5, 7, 10>>

\* ret is the interval list moved to the called root, element by element.
Transposes(intervals) ==
  /\ Len(ret) = Len(intervals)
  /\ \A k \in 1..Len(ret) : ret[k] = (call.root + intervals[k]) % 12

(* C20: a scale is 7 and a pentatonic 5 pairwise distinct pitch classes    *)
(* 0..11, element i being (root + interval i) mod 12 of the mode's list;   *)
(* both begin with the root, and every pentatonic pitch class belongs to   *)
(* the scale of the same root and mode.                                    *)
C20_ScalesAndPentatonics ==
  /\ ScaleResolved =>
       /\ Len(ret) = 7
       /\ Transposes(ScaleIntervals(call.type))
  /\ PentatonicResolved =>
       /\ Len(ret) = 5
       /\ Transposes(PentatonicIntervals(call.type))
       /\ Elements(ret) \subseteq
            {(call.root + ScaleIntervals(call.type)[k]) % 12 : k \in 1..7}
  /\ (ScaleResolved \/ PentatonicResolved) =>
       /\ PairwiseDistinct(ret)
       /\ Elements(ret) \subseteq 0..11
       /\ ret[1] = call.root

\* The minor pentatonic of a root whose upper notes wrap below the root.
C20_Witness ==
  /\ PentatonicResolved
  /\ call.type = "minor"
  /\ call.root = 9
  /\ ret = <<9, 0, 2, 4, 7>>

---------------------------------------------------------------------------
(* Note names: vocabulary of the claims.                                   *)

PitchResolved == pc = "resolved" /\ call.fn = "toPitchClass"

FormatResolved == pc = "resolved" /\ call.fn = "formatPitchClass"

\* t is a note name in some letter case: a letter A-G, then at most one
\* sharp or flat sign.
IsNoteNameVariant(t) ==
  /\ Len(t) \in {1, 2}
  /\ ToUpperChar(t[1]) \in {"A", "B", "C", "D", "E", "F", "G"}
  /\ Len(t) = 2 => ToLowerChar(t[2]) \in {"#", "b"}

\* The note name t is a letter-case variant of.
NameOfVariant(t) ==
  IF Len(t) = 1 THEN <<ToUpperChar(t[1])>> ELSE <<ToUpperChar(t[1]), ToLowerChar(t[2])>>

\* As IsNoteNameVariant, the flat sign being the small b only.
IsNoteNameSmallFlat(t) ==
  IsNoteNameVariant(t) /\ (Len(t) = 2 => t[2] \in {"#", "b"})

(* C18: a note name (letter A-G, optional # or b) has the pitch class      *)
(* (base + 1 for #, - 1 for b) mod 12 in 0..11, the same under every       *)
(* whitespace padding and in every letter case of the name; text whose     *)
(* first non-blank character is not a letter A-G gives the failure value.  *)
C18_NoteNameValue ==
  PitchResolved =>
    LET t == Unpadded(call.note)
    IN  /\ IsNoteNameVariant(t) => (ret = NamePc(NameOfVariant(t)) /\ ret \in 0..11)
        /\ (t = << >> \/ ToUpperChar(t[1]) \notin {"A", "B", "C", "D", "E", "F", "G"}) =>
             ret = -1

\* The same statement for names whose flat sign is written small: what the
\* code does satisfy.
C18_NoteNameValue_SmallFlat ==
  PitchResolved =>
    LET t == Unpadded(call.note)
    IN  /\ IsNoteNameSmallFlat(t) => (ret = NamePc(NameOfVariant(t)) /\ ret \in 0..11)
        /\ (t = << >> \/ ToUpperChar(t[1]) \notin {"A", "B", "C", "D", "E", "F", "G"}) =>
             ret = -1

\* A padded C flat in small letters came out as 11.
C18_Witness ==
  /\ PitchResolved
  /\ call.note = <<" ", "c", "b", "\t">>
  /\ ret = 11

(* C19: parsing the name formatPitchClass gives for a pitch class returns  *)
(* that pitch class, under both spelling preferences; the sharp and flat   *)
(* tables agree on the 7 natural pitch classes and differ on exactly the   *)
(* 5 others.                                                               *)
C19_FormatRoundTrip ==
  FormatResolved =>
    /\ toPitchClass(ret) = call.pc
    /\ ret \in {SHARP_NAMES[call.pc + 1], FLAT_NAMES[call.pc + 1]}
    /\ (call.pc \in {0, 2, 4, 5, 7, 9, 11}) <=>
         (SHARP_NAMES[call.pc + 1] = FLAT_NAMES[call.pc + 1])
    /\ Cardinality({k \in 1..12 : SHARP_NAMES[k] # FLAT_NAMES[k]}) = 5

\* The flat spelling of pitch class 1 was produced.
C19_Witness ==
  /\ FormatResolved
  /\ call.pc = 1
  /\ call.preferFlats
  /\ ret = <<"D", "b">>

---------------------------------------------------------------------------
(* Region lookups: vocabulary of the claims.                               *)

FretLookupResolved == pc = "resolved" /\ call.fn = "getRegionsForFret"

WindowLookupResolved == pc = "resolved" /\ call.fn = "getRegionWindow"

OfKeyRegions == call.from = "getCagedRegionsForKey"

Holds(region, fret) == region.fretStart <= fret /\ fret <= region.fretEnd

\* The ids of the regions that hold the fret, in the order of the list.
RECURSIVE IdsHolding(_, _)
IdsHolding(regions, fret) ==
  IF regions = << >> THEN << >>
  ELSE (IF Holds(Head(regions), fret) THEN <<Head(regions).id>> ELSE << >>)
         \o IdsHolding(Tail(regions), fret)

(* C21: getRegionsForFret returns the ids of exactly the regions whose     *)
(* window holds the fret, in list order; getRegionWindow returns the       *)
(* window of a region with the id, or the absent value when there is none; *)
(* on the regions of a key an id is listed for a fret iff the window of    *)
(* the id exists and holds the fret.                                       *)
C21_RegionLookups ==
  /\ FretLookupResolved =>
       /\ ret = IdsHolding(call.regions, call.fret)
       /\ OfKeyRegions =>
            \A id \in CagedRegionIds :
              (\E k \in 1..Len(ret) : ret[k] = id) <=>
                LET w == getRegionWindow(call.regions, id)
                IN  ~w.null /\ w.fretStart <= call.fret /\ call.fret <= w.fretEnd
  /\ WindowLookupResolved =>
       IF \E k \in 1..Len(call.regions) : call.regions[k].id = call.id
       THEN /\ ~ret.null
            /\ \E k \in 1..Len(call.regions) :
                 /\ call.regions[k].id = call.id
                 /\ ret.fretStart = call.regions[k].fretStart
                 /\ ret.fretEnd = call.regions[k].fretEnd
       ELSE ret.null

\* A fret of the neck that lies on the last fret of one region of the key
\* and inside another.
C21_Witness ==
  /\ FretLookupResolved
  /\ OfKeyRegions
  /\ Len(ret) >= 2
  /\ \E k \in 1..Len(call.regions) : call.regions[k].fretEnd = call.fret

(* C22: on the neck of the application (frets 0..15) the regions of every  *)
(* key cover the neck: each fret lies in at least one region, so           *)
(* getRegionsForFret is never empty.                                       *)
C22_RegionsCoverNeck ==
  (FretLookupResolved /\ OfKeyRegions /\ call.fret \in 0..15) => ret # << >>

(* C29: on the neck of the application every key has exactly five regions, *)
(* one for each of C, A, G, E, D, so getRegionWindow finds a window for    *)
(* every position of the overlay selector.                                 *)
C29_FiveRegionsOnNeck ==
  /\ (CagedResolved /\ call.fretMin = 0 /\ call.fretMax = 15) =>
       /\ Len(ret) = 5
       /\ \A id \in {"C", "A", "G", "E", "D"} :
            Cardinality({k \in 1..Len(ret) : ret[k].id = id}) = 1
  /\ (WindowLookupResolved /\ OfKeyRegions) => ~ret.null

\* The window of a shape that only the shift an octave down keeps on the neck.
C29_Witness ==
  /\ WindowLookupResolved
  /\ OfKeyRegions
  /\ call.id = "D"
  /\ ~ret.null
  /\ ret.fretStart = 7
  /\ ret.fretEnd = 11

(* C30: when both shift candidates of a template clamp to valid windows of *)
(* equal length, the region is the window of the shift diff, not of        *)
(* diff - 12; on a neck 0..24 the major E shape with diff 5 is [12,16].    *)
C30_TieKeepsUpperShift ==
  CagedResolved =>
    /\ \A j \in 1..5 :
         LET w == ReferenceWindows(call.keyType)[j]
             diff == (call.keyTonicPc - ReferenceTonicPc(call.keyType)) % 12
             upper == FretsOnNeck(w[2], w[3], diff, call.fretMin, call.fretMax)
             lower == FretsOnNeck(w[2], w[3], diff - 12, call.fretMin, call.fretMax)
         IN  ( /\ upper # {}
               /\ lower # {}
               /\ ClampedLength(upper) = ClampedLength(lower) ) =>
               RegionIs(w[1], Min(upper), Max(upper))
    /\ ( /\ call.keyTonicPc = 5
         /\ call.keyType = "major"
         /\ call.fretMin = 0
         /\ call.fretMax = 24 ) =>
         RegionIs("E", 12, 16) /\ ~RegionIs("E", 0, 4)

\* F major on a neck 0..24: both windows of the E shape fit whole.
C30_Witness ==
  /\ CagedResolved
  /\ call.keyTonicPc = 5 /\ call.keyType = "major"
  /\ call.fretMin = 0 /\ call.fretMax = 24
  /\ RegionIs("E", 12, 16)

---------------------------------------------------------------------------
(* Voicings on the fretboard: vocabulary of the claims.                    *)

OverlayResolved == pc = "resolved" /\ call.fn = "overlay"

OptionsResolved == pc = "resolved" /\ call.fn = "buildVoicingOptions"

\* The shape with the given id.
ShapeOf(voicingId) ==
  VOICINGS[CHOOSE k \in 1..Len(VOICINGS) : VOICINGS[k].id = voicingId]

ShapeRootPc(shape) == NamePc(<<shape.baseRoot>>)

\* The root is one the shape encodes: its own for an open shape, any for a
\* movable one.
Encodes(shape, root) == shape.movable \/ ShapeRootPc(shape) = root

\* The pitch classes of the chord of the given root and quality.
TonesOf(root, quality) ==
  LET table == CHORD_QUALITY_INTERVALS(quality)
  IN  {(root + table[k]) % 12 : k \in 1..Len(table)}

(* C23: for every shape and every root it encodes, each position the       *)
(* voicing overlay places on the fretboard sounds a chord tone: the open   *)
(* pitch class of its string in the tuning [4,11,7,2,9,4] plus its fret,   *)
(* mod 12, is a tone of the chord (root, shape.quality).                   *)
C23_VoicingSoundsChordTones ==
  ( /\ OverlayResolved
    /\ call.mode = "voicing"
    /\ call.chord # NoChord
    /\ call.voicingId \in VoicingIds
    /\ ShapeOf(call.voicingId).quality = call.chord.quality
    /\ Encodes(ShapeOf(call.voicingId), call.chord.root) ) =>
    \A pos \in ret.positionSet :
      (<<4, 11, 7, 2, 9, 4>>[pos[1] + 1] + pos[2]) % 12
        \in TonesOf(call.chord.root, call.chord.quality)

(* C24: every voicing option offered for a chord encodes the chord's root: *)
(* an open shape is offered only when the pitch class of its base root is  *)
(* chord.root, a movable shape is offered moved up to chord.root, and all  *)
(* frets of an option are below the fret count 16.                         *)
C24_OptionsEncodeRoot ==
  OptionsResolved =>
    \A k \in 1..Len(ret) :
      LET shape == ret[k].shape
          offset == (call.chord.root - ShapeRootPc(shape)) % 12
      IN  /\ ~shape.movable => ShapeRootPc(shape) = call.chord.root
          /\ shape.movable =>
               \A i \in 1..Len(shape.frets) :
                 ret[k].frets[i] = IF shape.frets[i] = -1 THEN -1
                                   ELSE shape.frets[i] + offset
          /\ \A i \in 1..Len(ret[k].frets) : ret[k].frets[i] < 16

---------------------------------------------------------------------------
(* The metronome: vocabulary of the claims.                                *)

Started == scheduler.config # NoConfig

\* The length of a beat of the started configuration, for a tempo above 0.
BeatLength == 18000 \div scheduler.config.bpm

BeatTime(k) == scheduler.config.startTime + k * BeatLength

Accented(click) == click.frequency = 1000

(* C27: whatever start, stop and updateConfig calls were made, at most one *)
(* interval timer is active; after start or updateConfig the one timer is  *)
(* the scheduler's, nextBeatTime is config.startTime and beatIndex is 0;   *)
(* while the timer id is null no timer is active, so no tick runs and no   *)
(* click is scheduled before the next start.                               *)
C27_OneTimer ==
  /\ Cardinality(browser.timers) <= 1
  /\ call.fn \in {"start", "updateConfig"} =>
       /\ scheduler.intervalId # Null
       /\ browser.timers = {scheduler.intervalId}
       /\ scheduler.nextBeatTime = call.config.startTime
       /\ scheduler.beatIndex = 0
  /\ call.fn = "stop" => scheduler.intervalId = Null
  /\ scheduler.intervalId = Null => browser.timers = {}

\* A scheduler restarted while its timer was running and the clock had moved.
C27_Witness ==
  /\ call.fn = "updateConfig"
  /\ browser.currentTime > 0
  /\ scheduler.nextBeatTime = browser.currentTime + 15
  /\ Cardinality(browser.timers) = 1

(* C28: after a start with bpm > 0 the beats 0, 1, 2, ... are processed in *)
(* order, each once, beat k at startTime + k * (60/bpm); a tick leaves     *)
(* nextBeatTime at or after currentTime + scheduleAheadTime; with          *)
(* clickEnabled every processed beat has its click, accented iff           *)
(* k mod beatsPerBar = 0; without it no click is scheduled and the beats   *)
(* advance the same way.                                                   *)
C28_BeatsInOrder ==
  (Started /\ scheduler.config.bpm > 0) =>
    /\ scheduler.nextBeatTime = BeatTime(scheduler.beatIndex)
    /\ call.fn = "tick" => scheduler.nextBeatTime >= browser.currentTime + 36
    /\ IF scheduler.config.clickEnabled
       THEN /\ Len(browser.clicks) = scheduler.beatIndex
            /\ \A k \in 0..(scheduler.beatIndex - 1) :
                 /\ browser.clicks[k + 1].time = BeatTime(k)
                 /\ Accented(browser.clicks[k + 1]) <=>
                      (k % scheduler.config.beatsPerBar = 0)
       ELSE browser.clicks = << >>

\* A tick that has reached the second bar of a 4-beat configuration.
C28_Witness ==
  /\ call.fn = "tick"
  /\ Started
  /\ scheduler.config.bpm > 0
  /\ scheduler.config.clickEnabled
  /\ scheduler.config.beatsPerBar = 4
  /\ scheduler.beatIndex >= 6
  /\ Accented(browser.clicks[5])


---------------------------------------------------------------------------
(* Playback: vocabulary of the claims.                                     *)

\* What the component looks like when nothing plays.
PlaybackIdle ==
  /\ ~app.schedulerRef
  /\ browser.timers = {}
  /\ browser.frames = {}
  /\ app.activeBlockIndex = -1
  /\ app.playheadLabel = <<"00:00">>

OneTimerOneFrame ==
  /\ Cardinality(browser.timers) = 1
  /\ Cardinality(browser.frames) = 1

\* A timeline of total duration 0: every block lasts at least one bar, so
\* it is the timeline with no block.
TimelineOfNoDuration == app.bars = << >>

\* The step is a press of Play, taken while nothing plays.
PlayPressed == ~app.isPlaying /\ call'.fn = "playStop"

PlaybackState ==
  /\ app.isPlaying <=> OneTimerOneFrame
  /\ ~app.isPlaying => PlaybackIdle

(* C25: after every event (Play/Stop, block added, edited, moved, removed, *)
(* tempo changed, metronome toggled) isPlaying holds iff exactly one       *)
(* interval timer is active and exactly one animation frame is pending;    *)
(* when isPlaying is false the scheduler reference is null, no timer or    *)
(* frame is pending, activeBlockIndex is null and the label is "00:00";    *)
(* pressing Play on a timeline of total duration 0 changes nothing.        *)
C25_PlaybackConsistent ==
  /\ []PlaybackState
  /\ [][(PlayPressed /\ TimelineOfNoDuration) => UNCHANGED playVars]_vars


\* The last step was an update of a playing, non-empty timeline.
UpdatedWhilePlaying ==
  call.fn = "update" /\ app.isPlaying /\ app.bars # << >>

\* The elapsed time t the update computed from the clock.
Elapsed ==
  IF browser.currentTime > app.startTimeRef
  THEN browser.currentTime - app.startTimeRef ELSE 0

\* duration_i, start_i and total of the claim, for a tempo above 0; blocks
\* are numbered from 0 as in the code.
DurationOf(i) == app.bars[i + 1] * app.beatsPerBar * (18000 \div app.bpm)

RECURSIVE StartOf(_)
StartOf(i) == IF i = 0 THEN 0 ELSE StartOf(i - 1) + DurationOf(i - 1)

TotalDuration == StartOf(Len(app.bars))

Covers(i, time) == StartOf(i) <= time /\ time < StartOf(i) + DurationOf(i)

(* C26: while a non-empty timeline plays, an update at elapsed time t sets *)
(* activeBlockIndex to the one index i with                                *)
(* start_i <= (t mod total) < start_i + duration_i; it is never null. At   *)
(* tempo 0 every duration is infinite and the index is 0.                  *)
C26_ActiveBlockFollowsTime ==
  UpdatedWhilePlaying =>
    /\ app.activeBlockIndex \in 0..(Len(app.bars) - 1)
    /\ app.bpm > 0 =>
         \A i \in 0..(Len(app.bars) - 1) :
           Covers(i, Elapsed % TotalDuration) <=> app.activeBlockIndex = i
    /\ app.bpm = 0 => app.activeBlockIndex = 0

\* An update after the last of two blocks has ended: block 0 is active again.
C26_Witness ==
  /\ UpdatedWhilePlaying
  /\ app.bpm > 0
  /\ Len(app.bars) = 2
  /\ Elapsed >= TotalDuration
  /\ app.activeBlockIndex = 0

===========================================================================
